---- MODULE Spec2Model ----
(***************************************************************************)
(* Nozzle contour design and performance engine of the CEA analyzer.       *)
(*                                                                         *)
(* Python floats are modelled as decimal floating-point numbers with an    *)
(* eight-digit mantissa, [m |-> mantissa, e |-> exponent], value m * 10^e, *)
(* rounded to nearest after every operation.  Every intermediate integer   *)
(* stays below 2^31.  NaN is the value numpy produces for sqrt of a        *)
(* negative number and for 0/0.                                            *)
(***************************************************************************)
EXTENDS Integers, Sequences, FiniteSets, TLC

\* ------------------------------------------------------------------------
\* State
\* ------------------------------------------------------------------------

VARIABLES
    mpc,      \* mach_from_area_ratio: "idle", "loop", "returned", "raised"
    margs,    \* its arguments [impl, area_ratio, gamma], or None
    M,        \* its current Mach estimate
    it,       \* iterations of its loop completed
    mresult,  \* the value returned, or None
    merror,   \* the exception raised, or None
    mlog,     \* the warnings logged, in order
    gpc,      \* a generator call: "idle" before it, "done" after it
    gcall,    \* the latest call [gen, cea_data, R_throat, N, ...], or None
    gout,     \* its outcome, Returned(...) or Raised(...), or None
    glog,     \* the warnings logged during the latest generator call, in order
    sfull,    \* the contour with inlet the caller got last, or None
    sreport,  \* the performance report the caller got last, or None
    strace,   \* the calls the caller has made, in order
    sfirst,   \* what each generator call returned the first time it was made
    rpc,      \* a repair loop: "idle", "loop", "done"
    rgen,     \* the generator whose loop it is
    rin,      \* the fitted radii it was given
    rarr,     \* the radii r as the loop has them
    ri,       \* the loop index i (the array is 0-based, as in the source)
    ipc,      \* an add_inlet_section call on its own: "idle" before, "done" after
    icall,    \* its arguments [impl, x, r, R_throat, ...], or None
    iarrays,  \* the arrays x and r the caller passed, as they are after the call
    ifull,    \* the contour [x, r] the call returned, or None
    pcall,    \* a calculate_performance call on its own: [cea_data, x, r], or None
    preport,  \* the dictionary that call returned, or None
    bpc,      \* solve_mach: "idle", "loop", "returned", "raised"
    bcall,    \* the round trip under way [mach, gamma, p_ratio], or None
    blo,      \* lo, the lower end of its bracket
    bhi,      \* hi, the upper end of its bracket
    bresult,  \* the Mach number it returned, or None
    blog,     \* the warnings it logged, in order
    qcall,    \* an inverse_prandtl_meyer call on its own: [nu_target, gamma], or None
    qmach,    \* the Mach number that call returned, or None
    ccall,    \* a Nozzle.generate_contour call: [nozzle, cea_data], or None
    cout,     \* its outcome, Returned(...) or Raised(...), or None
    clog,     \* the warnings it logged, in order
    self_cea_data,          \* NozzleDesignWidget.cea_data, a record or None
    current_nozzle_coords,  \* its attribute of that name: [x, r] or None
    current_performance,    \* its attribute of that name: a report or None
    export_enabled,         \* whether its export button is enabled
    wrun,     \* the _generate_nozzle calls made so far
    wlast,    \* the latest one: its settings and how it ended, or None
    wfrom     \* the call that assigned each attribute last, 0 for none

mvars == <<mpc, margs, M, it, mresult, merror, mlog>>
gvars == <<gpc, gcall, gout, glog>>
svars == <<sfull, sreport, strace, sfirst>>
rvars == <<rpc, rgen, rin, rarr, ri>>
ivars == <<ipc, icall, iarrays, ifull>>
pvars == <<pcall, preport>>
bvars == <<bpc, bcall, blo, bhi, bresult, blog>>
qvars == <<qcall, qmach>>
cvars == <<ccall, cout, clog>>
wvars == <<self_cea_data, current_nozzle_coords, current_performance, export_enabled,
           wrun, wlast, wfrom>>
core == <<mvars, gvars, svars, rvars, ivars, pvars>>
vars == <<mpc, margs, M, it, mresult, merror, mlog, gpc, gcall, gout, glog,
          sfull, sreport, strace, sfirst, rpc, rgen, rin, rarr, ri,
          ipc, icall, iarrays, ifull, pcall, preport,
          bpc, bcall, blo, bhi, bresult, blog, qcall, qmach, ccall, cout, clog,
          self_cea_data, current_nozzle_coords, current_performance, export_enabled,
          wrun, wlast, wfrom>>

\* what a step of the Mach solver, of a generator, of the caller's other
\* calls and of a repair loop leaves alone
evars == <<bvars, qvars, cvars, wvars>>
NotMach == <<gvars, svars, rvars, ivars, pvars, evars>>
NotGen == <<mvars, sfull, sreport, rvars, ivars, pvars, evars>>
NotCaller == <<mvars, rvars, ivars, pvars, evars>>
NotRepair == <<mvars, gvars, svars, ivars, pvars, evars>>
NotInlet == <<mvars, gvars, svars, rvars, pvars, evars>>
NotPerformance == <<mvars, gvars, svars, rvars, ivars, evars>>
NotSolve == <<core, qvars, cvars, wvars>>
NotPm == <<core, bvars, cvars, wvars>>
NotComponent == <<core, bvars, qvars, wvars>>
NotWidget == <<core, bvars, qvars, cvars>>

None == [none |-> TRUE]

\* ------------------------------------------------------------------------
\* Floating-point arithmetic
\* ------------------------------------------------------------------------

MantLo == 10^7
MantHi == 10^8
Pow10 == [k \in 0..9 |-> 10^k]

Zero == [m |-> 0, e |-> 0]
NaN == [m |-> 0, e |-> 1]
IsNaN(x) == x = NaN

Abs(n) == IF n < 0 THEN -n ELSE n
Sgn(n) == IF n < 0 THEN -1 ELSE IF n > 0 THEN 1 ELSE 0

\* a / b rounded to nearest, b > 0, the sign kept
DivR(a, b) == Sgn(a) * ((Abs(a) + (b \div 2)) \div b)

RECURSIVE NormMag(_, _, _)
NormMag(s, a, e) ==
    IF a >= MantHi THEN NormMag(s, (a + 5) \div 10, e + 1)
    ELSE IF a < MantLo THEN NormMag(s, a * 10, e - 1)
    ELSE [m |-> s * a, e |-> e]

\* the float nearest to n * 10^e
Mk(n, e) == IF n = 0 THEN Zero ELSE NormMag(Sgn(n), Abs(n), e)

FromInt(n) == Mk(n, 0)
\* the decimal literal n / 10^k
Dec(n, k) == Mk(n, -k)

FNeg(x) == IF IsNaN(x) THEN NaN ELSE [m |-> -(x.m), e |-> x.e]
FAbs(x) == IF IsNaN(x) THEN NaN ELSE [m |-> Abs(x.m), e |-> x.e]

FAdd(x, y) ==
    IF IsNaN(x) \/ IsNaN(y) THEN NaN
    ELSE IF x.m = 0 THEN y
    ELSE IF y.m = 0 THEN x
    ELSE LET big == IF x.e >= y.e THEN x ELSE y
             small == IF x.e >= y.e THEN y ELSE x
             d == big.e - small.e
         IN  IF d > 9 THEN big
             ELSE Mk(big.m * 10 + DivR(small.m * 10, Pow10[d]), big.e - 1)

FSub(x, y) == FAdd(x, FNeg(y))

FMul(x, y) ==
    IF IsNaN(x) \/ IsNaN(y) THEN NaN
    ELSE IF x.m = 0 \/ y.m = 0 THEN Zero
    ELSE LET a == Abs(x.m)
             b == Abs(y.m)
             ah == a \div 10000
             al == a % 10000
             bh == b \div 10000
             bl == b % 10000
             low == ((ah * bl + al * bh) * 10 + ((al * bl) \div 1000) + 5000) \div 10000
         IN  Mk(Sgn(x.m) * Sgn(y.m) * (ah * bh * 10 + low), x.e + y.e + 7)

\* k more digits of the quotient by b, st the pair of the remainder and the
\* digits so far; the last digit is rounded
RECURSIVE LongDiv(_, _, _)
LongDiv(st, b, k) ==
    IF st[1] = 0 THEN st[2] * Pow10[k]
    ELSE IF k = 0 THEN (IF 2 * st[1] >= b THEN st[2] + 1 ELSE st[2])
    ELSE LongDiv(<<(st[1] * 10) % b, st[2] * 10 + ((st[1] * 10) \div b)>>, b, k - 1)

\* numpy semantics: a division by zero yields no number (NaN here); the
\* Python-float callers test the divisor and raise ZeroDivisionError.
FDiv(x, y) ==
    IF IsNaN(x) \/ IsNaN(y) \/ y.m = 0 THEN NaN
    ELSE IF x.m = 0 THEN Zero
    ELSE LET a == Abs(x.m)
             b == Abs(y.m)
         IN  Mk(Sgn(x.m) * Sgn(y.m) * LongDiv(<<a % b, a \div b>>, b, 8), x.e - y.e - 8)

FLt(x, y) == ~IsNaN(x) /\ ~IsNaN(y) /\ FSub(x, y).m < 0
FLe(x, y) == ~IsNaN(x) /\ ~IsNaN(y) /\ FSub(x, y).m <= 0
FGt(x, y) == FLt(y, x)
FGe(x, y) == FLe(y, x)

One == [m |-> MantLo, e |-> -7]
Two == [m |-> 2 * MantLo, e |-> -7]
Half == [m |-> 5 * MantLo, e |-> -8]

RECURSIVE ISqrt(_, _, _)
\* the integer square root of n, searched in lo..hi
ISqrt(n, lo, hi) ==
    IF lo >= hi THEN lo
    ELSE LET mid == (lo + hi + 1) \div 2
         IN  IF mid * mid <= n THEN ISqrt(n, mid, hi) ELSE ISqrt(n, lo, mid - 1)

\* one Newton step towards the square root of x from the estimate y
SqrtStep(x, y) == FMul(Half, FAdd(y, FDiv(x, y)))

\* the estimate from the integer square root of the mantissa, the exponent
\* made even first
SqrtSeed(x) ==
    LET odd == (x.e % 2) # 0
    IN  Mk(ISqrt(IF odd THEN x.m * 10 ELSE x.m, 1, 31622),
           (IF odd THEN x.e - 1 ELSE x.e) \div 2)

RECURSIVE SqrtNewton(_, _, _)
SqrtNewton(x, y, k) == IF k = 0 \/ y.m = 0 THEN y ELSE SqrtNewton(x, SqrtStep(x, y), k - 1)

\* math.sqrt and np.sqrt: no number below zero
FSqrt(x) ==
    IF IsNaN(x) \/ x.m < 0 THEN NaN
    ELSE IF x.m = 0 THEN Zero
    ELSE SqrtNewton(x, SqrtSeed(x), 3)

Pi == [m |-> 31415927, e |-> -7]
Ln10 == [m |-> 23025851, e |-> -7]

\* x^n for a natural number n, by repeated multiplication
RECURSIVE FPowInt(_, _)
FPowInt(x, n) == IF n = 0 THEN One ELSE FMul(x, FPowInt(x, n - 1))

\* sum of t^k / k! for k = n ..., the term t^n / n! given
RECURSIVE ExpSeries(_, _, _, _)
ExpSeries(t, term, n, acc) ==
    IF term.m = 0 \/ n > 24 \/ (acc.m # 0 /\ term.e + 8 < acc.e - 1) THEN acc
    ELSE ExpSeries(t, FDiv(FMul(term, t), FromInt(n + 1)), n + 1, FAdd(acc, term))

\* floor of |x| / ln(10) for the range reduction of exp, as an integer
RECURSIVE IntPart(_, _)
IntPart(m, e) ==
    IF e >= 0 THEN m * Pow10[e]
    ELSE IF e < -8 THEN 0
    ELSE m \div Pow10[-e]

\* math.exp: exp(x) = 10^k * exp(x - k ln 10)
ExpShift(s, k) == [m |-> s.m, e |-> s.e + k]
ExpScaled(x, k) == ExpShift(ExpSeries(FSub(x, FMul(FromInt(k), Ln10)), One, 0, Zero), k)
ExpDecade(x, q) == ExpScaled(x, Sgn(x.m) * IntPart(q.m, q.e))

FExp(x) ==
    IF IsNaN(x) THEN NaN
    ELSE IF x.m = 0 THEN One
    ELSE ExpDecade(x, FDiv(FAbs(x), Ln10))

\* z + z^3/3 + z^5/5 + ..., the power z^n given
RECURSIVE AtanhSeries(_, _, _, _)
AtanhSeries(z2, pw, n, acc) ==
    IF pw.m = 0 \/ n > 41 \/ (acc.m # 0 /\ pw.e + 8 < acc.e - 1) THEN acc
    ELSE AtanhSeries(z2, FMul(pw, z2), n + 2, FAdd(acc, FDiv(pw, FromInt(n))))

\* ln t = 2 atanh(z) with z = (t-1)/(t+1), times the k square roots taken
LnSeries(z, k) == FMul(FromInt(2 * k), AtanhSeries(FMul(z, z), z, 1, Zero))

\* ln of t >= 1: square roots bring t below 1.35
RECURSIVE LnReduce(_, _)
LnReduce(t, k) ==
    IF FGt(t, Dec(135, 2)) THEN LnReduce(FSqrt(t), 2 * k)
    ELSE LnSeries(FDiv(FSub(t, One), FAdd(t, One)), k)

\* ln(t * 10^k) = ln t + k ln 10 with t in [1, 10); a mantissa above 5 was
\* taken as 10 / (10 / t) so that arguments just below 1 do not cancel
LnJoin(x, l) ==
    IF x.m > 5 * MantLo THEN FSub(FMul(FromInt(x.e + 8), Ln10), l)
    ELSE FAdd(l, FMul(FromInt(x.e + 7), Ln10))

LnMantissa(x, t) == LnJoin(x, LnReduce(IF x.m > 5 * MantLo THEN FDiv(FromInt(10), t) ELSE t, 1))

\* math.log
FLn(x) ==
    IF IsNaN(x) \/ x.m <= 0 THEN NaN
    ELSE LnMantissa(x, [m |-> x.m, e |-> -7])

FLog10(x) == FDiv(FLn(x), Ln10)

\* x ** y of Python floats, x > 0
FPow(x, y) ==
    IF IsNaN(x) \/ IsNaN(y) THEN NaN
    ELSE IF y.m = 0 THEN One
    ELSE IF x.m = 0 THEN Zero
    ELSE FExp(FMul(y, FLn(x)))

\* alternating series x - x^3/3! + ... (sin) or 1 - x^2/2! + ... (cos)
RECURSIVE TrigSeries(_, _, _, _)
TrigSeries(x2, term, n, acc) ==
    IF term.m = 0 \/ n > 40 \/ (acc.m # 0 /\ term.e + 8 < acc.e - 1) THEN acc
    ELSE TrigSeries(x2, FNeg(FDiv(FMul(term, x2), FromInt((n + 1) * (n + 2)))),
                    n + 2, FAdd(acc, term))

TwoPi == [m |-> 62831854, e |-> -7]

\* the angle reduced into [-pi, pi]
RECURSIVE ReduceAngle(_)
ReduceAngle(x) ==
    IF FGt(x, Pi) THEN ReduceAngle(FSub(x, TwoPi))
    ELSE IF FLt(x, FNeg(Pi)) THEN ReduceAngle(FAdd(x, TwoPi))
    ELSE x

SinReduced(t) == TrigSeries(FMul(t, t), t, 1, Zero)
CosReduced(t) == TrigSeries(FMul(t, t), One, 0, Zero)

FSin(x) == IF IsNaN(x) THEN NaN ELSE SinReduced(ReduceAngle(x))

FCos(x) == IF IsNaN(x) THEN NaN ELSE CosReduced(ReduceAngle(x))

FTan(x) == FDiv(FSin(x), FCos(x))

\* z - z^3/3 + z^5/5 - ..., the signed power given
RECURSIVE AtanSeries(_, _, _, _)
AtanSeries(z2, pw, n, acc) ==
    IF pw.m = 0 \/ n > 61 \/ (acc.m # 0 /\ pw.e + 8 < acc.e - 1) THEN acc
    ELSE AtanSeries(z2, FNeg(FMul(pw, z2)), n + 2, FAdd(acc, FDiv(pw, FromInt(n))))

AtanOf(z) == AtanSeries(FMul(z, z), z, 1, Zero)

\* arctan of 0 <= x <= 1: atan(x) = pi/4 + atan((x - 1) / (x + 1)) above 0.4
AtanUnit(x) ==
    IF FGt(x, Dec(4, 1))
    THEN FAdd(FDiv(Pi, FromInt(4)), AtanOf(FDiv(FSub(x, One), FAdd(x, One))))
    ELSE AtanOf(x)

\* arctan of a >= 0: pi/2 - atan(1/a) above 1; u is the arctan of the
\* argument brought into [0, 1]
AtanJoin(x, above, u) ==
    IF x.m < 0 THEN FNeg(IF above THEN FSub(FDiv(Pi, Two), u) ELSE u)
    ELSE IF above THEN FSub(FDiv(Pi, Two), u)
    ELSE u

AtanFold(x, a, above) == AtanJoin(x, above, AtanUnit(IF above THEN FDiv(One, a) ELSE a))

\* math.atan and np.arctan
FAtan(x) == IF IsNaN(x) THEN NaN ELSE AtanFold(x, FAbs(x), FGt(FAbs(x), One))

\* np.arcsin: NaN outside [-1, 1]
FAsin(y) ==
    IF IsNaN(y) \/ FGt(FAbs(y), One) THEN NaN
    ELSE IF FAbs(y) = One THEN FMul(FromInt(Sgn(y.m)), FDiv(Pi, Two))
    ELSE FAtan(FDiv(y, FSqrt(FSub(One, FMul(y, y)))))

\* np.radians
Radians(deg) == FDiv(FMul(deg, Pi), FromInt(180))

\* ------------------------------------------------------------------------
\* cea_analyzer/propulsion/nozzle/moc.py
\* ------------------------------------------------------------------------

\* the Prandtl-Meyer function nu(M), NaN below Mach 1 (np.sqrt of a negative)
prandtl_meyer(Mach, gamma) ==
    LET term1 == FSqrt(FDiv(FAdd(gamma, One), FSub(gamma, One)))
        m21 == FSub(FMul(Mach, Mach), One)
    IN  FSub(FMul(term1, FAtan(FSqrt(FMul(FDiv(FSub(gamma, One), FAdd(gamma, One)), m21)))),
             FAtan(FSqrt(m21)))

\* area_eq of mach_from_area_ratio: A/A*(M) - AR
area_eq(Mach, AR, gamma) ==
    LET left == FMul(FDiv(One, Mach),
                     FPow(FMul(FDiv(Two, FAdd(gamma, One)),
                               FAdd(One, FMul(FMul(Half, FSub(gamma, One)), FMul(Mach, Mach)))),
                          FDiv(FAdd(gamma, One), FMul(Two, FSub(gamma, One)))))
    IN  FSub(left, AR)

\* the function handed to fsolve: "area" is area_eq, "pm" is fn of
\* inverse_prandtl_meyer
Residual(kind, Mach, target, gamma) ==
    IF kind = "area" THEN area_eq(Mach, target, gamma)
    ELSE FSub(prandtl_meyer(Mach, gamma), target)

\* scipy's limit on function evaluations for one unknown, 200 * (n + 1)
FSolveMaxFev == 200 * 2
\* the relative step of the forward difference and the relative tolerance on
\* x, both at the resolution of the eight-digit mantissa
FSolveEps == Dec(1, 4)
FSolveXtol == Dec(1, 6)

\* The step of one iteration: the Newton step, halved until the residual
\* shrinks (the trust region of MINPACK's hybrd never accepts a step that
\* does not reduce the residual).  [ok, x, fx, nfev].
RECURSIVE FSolveTrial(_, _, _, _, _, _, _)
\* the trial point xn with its residual fn is taken, given up or halved again
FSolveJudge(kind, target, gamma, x, fx, step, k, xn, fn) ==
    IF FLt(FAbs(fn), FAbs(fx)) THEN [ok |-> TRUE, x |-> xn, fx |-> fn, nfev |-> k + 1]
    ELSE IF k >= 7 THEN [ok |-> FALSE, x |-> x, fx |-> fx, nfev |-> k + 1]
    ELSE FSolveTrial(kind, target, gamma, x, fx, FMul(Half, step), k + 1)

FSolveAt(kind, target, gamma, x, fx, step, k, xn) ==
    FSolveJudge(kind, target, gamma, x, fx, step, k, xn, Residual(kind, xn, target, gamma))

FSolveTrial(kind, target, gamma, x, fx, step, k) ==
    FSolveAt(kind, target, gamma, x, fx, step, k, FSub(x, step))

\* scipy.optimize.fsolve on one unknown: Newton steps with a forward-difference
\* slope from x0.  It never raises: when it runs out of evaluations, of slope
\* or of progress it returns the last iterate.  The state of the iteration is
\* the estimate x, its residual fx, the evaluations spent and whether it ended.
FSolveState(x, fx, nfev, done) == [x |-> x, fx |-> fx, nfev |-> nfev, done |-> done]

\* after the trial tr from x: stop on no progress or on xtol, else go on
FSolveNext(kind, target, gamma, x, fx, nfev, tr) ==
    IF ~tr.ok THEN FSolveState(x, fx, nfev, TRUE)
    ELSE IF FLe(FAbs(FSub(tr.x, x)), FMul(FSolveXtol, FAbs(tr.x)))
         THEN FSolveState(tr.x, tr.fx, nfev, TRUE)
    ELSE FSolveState(tr.x, tr.fx, nfev + 1 + tr.nfev, FALSE)

FSolveSlope(kind, target, gamma, x, fx, nfev, slope) ==
    IF IsNaN(slope) \/ slope.m = 0 THEN FSolveState(x, fx, nfev, TRUE)
    ELSE FSolveNext(kind, target, gamma, x, fx, nfev,
                    FSolveTrial(kind, target, gamma, x, fx, FDiv(fx, slope), 0))

FSolveDiff(kind, target, gamma, x, fx, nfev, h) ==
    FSolveSlope(kind, target, gamma, x, fx, nfev,
                FDiv(FSub(Residual(kind, FAdd(x, h), target, gamma), fx), h))

\* one iteration from the state st
FSolveStep(kind, target, gamma, st) ==
    IF IsNaN(st.fx) \/ st.fx.m = 0 \/ st.nfev >= FSolveMaxFev
    THEN FSolveState(st.x, st.fx, st.nfev, TRUE)
    ELSE FSolveDiff(kind, target, gamma, st.x, st.fx, st.nfev,
                    IF st.x.m = 0 THEN FSolveEps ELSE FMul(FSolveEps, FAbs(st.x)))

RECURSIVE FSolve(_, _, _, _)
FSolve(kind, target, gamma, st) ==
    IF st.done THEN st.x ELSE FSolve(kind, target, gamma, FSolveStep(kind, target, gamma, st))

\* the initial guess alone, fsolve left out
InitialGuessOfPm(nu_target, gamma) == FAdd(One, FDiv(nu_target, Pi))

\* M with nu(M) = nu_target, fsolve started at 1 + nu_target / pi
inverse_prandtl_meyer(nu_target, gamma) ==
    LET M0 == FAdd(One, FDiv(nu_target, Pi))
    IN  FSolve("pm", nu_target, gamma,
               FSolveState(M0, Residual("pm", M0, nu_target, gamma), 1, FALSE))

\* moc.mach_from_area_ratio: no input check, fsolve started at M = 2
\* the area ratios and specific heat ratios the calls below are made with
MachAreaRatios == {Dec(5, 1), One, Dec(15, 1), Two, FromInt(4), FromInt(8), FromInt(20)}
MachGammas == {Dec(12, 1), Dec(14, 1)}

\* lines 57-79. At AR = 1 the residual touches zero at M = 1 without changing
\* sign: fsolve's estimates come down from 2.0 on the convex residual and stop
\* within xtol of the root, which is 1 to the digits carried here.
moc_mach_from_area_ratio(AR, gamma) ==
    IF AR = One THEN One
    ELSE FSolve("area", AR, gamma, FSolveState(Two, area_eq(Two, AR, gamma), 1, FALSE))

\* ------------------------------------------------------------------------
\* propulsion/nozzle: the contour generators
\* ------------------------------------------------------------------------

\* a call's outcome: the (x, r) arrays with the throat properties they were
\* built from, or the exception that left the call
Returned(x, r, props) == [status |-> "returned", x |-> x, r |-> r, props |-> props]
Raised(error) == [status |-> "raised", error |-> error]

\* np.linspace(start, stop, num): start + i * step, the last point set to stop
linspace(start, stop, num) ==
    IF num = 1 THEN <<start>>
    ELSE LET step == FDiv(FSub(stop, start), FromInt(num - 1))
         IN  [i \in 1..num |-> IF i = num THEN stop
                               ELSE FAdd(FMul(FromInt(i - 1), step), start)]

\* dict.get on a record that the first call of a session emptied
GetPopped(d, key, default) ==
    IF strace # <<>> THEN default
    ELSE IF key \in DOMAIN d THEN d[key]
    ELSE default

\* dict.get(key, default)
Get(d, key, default) == IF key \in DOMAIN d THEN d[key] ELSE default

\* base.py lines 16-60
get_throat_properties(cea_data) ==
    LET gamma == IF "gamma" \in DOMAIN cea_data THEN Get(cea_data, "gamma", Dec(12, 1))
                 ELSE Get(cea_data, "GAMMAs", Dec(12, 1))
        area_ratio == Get(cea_data, "Ae/At", FromInt(8))
    IN  [gamma |-> gamma,
         p_c |-> FMul(Get(cea_data, "Pc (bar)", FromInt(50)), Mk(1, 5)),
         area_ratio |-> area_ratio,
         t_c |-> Get(cea_data, "T_chamber (K)", FromInt(3500)),
         m_exit |-> moc_mach_from_area_ratio(area_ratio, gamma)]

\* the "R_throat is None" block every generator starts with (conical.py 45-49)
ThroatRadius(cea_data, R_throat) ==
    IF R_throat # None THEN R_throat
    ELSE IF "At" \in DOMAIN cea_data THEN FSqrt(FDiv(cea_data["At"], Pi))
    ELSE Dec(5, 2)

\* conical.py lines 51-52, the same in every generator: the throat properties
\* props, the throat radius Rt and the exit radius
ThroatAndExit(props, Rt) ==
    [props |-> props, Rt |-> Rt, R_exit |-> FMul(Rt, FSqrt(props.area_ratio))]

\* conical.py lines 42-52
Design(cea_data, R_throat) ==
    ThroatAndExit(get_throat_properties(cea_data), ThroatRadius(cea_data, R_throat))

\* conical.py lines 64-71: the radii along x
ConicalPoints(g, slope, x, N) ==
    Returned(x,
             [i \in 1..N |-> IF i = N THEN g.R_exit
                             ELSE IF i = 1 THEN g.Rt
                             ELSE FAdd(g.Rt, FMul(x[i], slope))],
             g.props)

\* conical.py lines 55-61: the length and the axial coordinates
ConicalLength(g, slope, N) ==
    ConicalPoints(g, slope, linspace(Zero, FDiv(FSub(g.R_exit, g.Rt), slope), N), N)

\* conical.py lines 15-73
conical_nozzle(cea_data, half_angle, R_throat, N) ==
    ConicalLength(Design(cea_data, R_throat), FTan(Radians(half_angle)), N)

\* the fit with the right-hand side in rao.py's row order against bell.py's
\* matrix: the exit radius and the initial slope change places
CubicFitRowsSwapped(L, y0, yL, m0, mL) ==
    IF L = Zero THEN [singular |-> TRUE]
    ELSE LET dy == FSub(m0, y0)
             L2 == FMul(L, L)
         IN  [singular |-> FALSE,
              a |-> FDiv(FSub(FMul(L, FAdd(yL, mL)), FMul(Two, dy)), FMul(L2, L)),
              b |-> FDiv(FSub(FMul(FromInt(3), dy), FMul(L, FAdd(FMul(Two, yL), mL))), L2),
              c |-> yL,
              d |-> y0]

\* np.linalg.solve on the system of the cubic a x^3 + b x^2 + c x + d with
\* r(0) = y0, r'(0) = m0, r(L) = yL, r'(L) = mL (bell.py 90-106, rao.py 98-114).
\* With L = 0 two rows of the matrix are equal and LAPACK reports a singular
\* matrix; otherwise the solution is the Hermite cubic.
CubicFit(L, y0, yL, m0, mL) ==
    IF L = Zero THEN [singular |-> TRUE]
    ELSE LET dy == FSub(yL, y0)
             L2 == FMul(L, L)
         IN  [singular |-> FALSE,
              a |-> FDiv(FSub(FMul(L, FAdd(m0, mL)), FMul(Two, dy)), FMul(L2, L)),
              b |-> FDiv(FSub(FMul(FromInt(3), dy), FMul(L, FAdd(FMul(Two, m0), mL))), L2),
              c |-> m0,
              d |-> y0]

\* a*x**3 + b*x**2 + c*x + d
CubicAt(fit, x) ==
    FAdd(FAdd(FAdd(FMul(fit.a, FPowInt(x, 3)), FMul(fit.b, FPowInt(x, 2))),
              FMul(fit.c, x)), fit.d)

\* bell.py lines 66-77: (theta_initial, theta_exit) in degrees
BellAngles(percent_bell) ==
    IF FLe(percent_bell, FromInt(60)) THEN <<FromInt(40), FromInt(15)>>
    ELSE IF FLe(percent_bell, FromInt(75)) THEN <<FromInt(35), FromInt(12)>>
    ELSE IF FLe(percent_bell, FromInt(85)) THEN <<FromInt(30), FromInt(8)>>
    ELSE <<FromInt(25), FromInt(5)>>

\* bell.py lines 108-116 and rao.py lines 116-124: the radii of the fitted
\* cubic with both ends set, or the error np.linalg.solve raised
FittedContour(coefs, x, g, N) ==
    IF coefs.singular THEN Raised("LinAlgError")
    ELSE Returned(x,
                  [i \in 1..N |-> IF i = N THEN g.R_exit
                                  ELSE IF i = 1 THEN g.Rt
                                  ELSE CubicAt(coefs, x[i])],
                  g.props)

\* bell.py lines 84-110 and rao.py lines 92-118: the cubic over [0, L] with
\* the end slopes m_start and m_end
CubicContour(g, L, m_start, m_end, N) ==
    FittedContour(CubicFit(L, g.Rt, g.R_exit, m_start, m_end), linspace(Zero, L, N), g, N)

\* the length of the 15 degree cone between the two radii
L_conical(g) == FDiv(FSub(g.R_exit, g.Rt), FTan(Radians(FromInt(15))))

\* bell.py lines 97-102: the slopes (initial_slope, exit_slope) the cubic is
\* fitted to
BellSlopes(percent_bell) ==
    <<FTan(Radians(BellAngles(percent_bell)[1])),
      FTan(Radians(BellAngles(percent_bell)[2]))>>

\* bell.py lines 57-110
BellFrom(g, N, percent_bell) ==
    CubicContour(g, FMul(L_conical(g), FDiv(percent_bell, FromInt(100))),
                 BellSlopes(percent_bell)[1], BellSlopes(percent_bell)[2], N)

\* bell.py lines 15-118
bell_nozzle(cea_data, R_throat, N, percent_bell) ==
    BellFrom(Design(cea_data, R_throat), N, percent_bell)

\* rao.py lines 82 and 87: the slopes (m_start, m_end) the cubic is fitted to
RaoSlopes(theta_n, theta_e) ==
    <<FTan(FMul(Radians(theta_n), Half)), FTan(Radians(theta_e))>>

\* rao.py lines 62-118
RaoFrom(g, N, theta_n, theta_e) ==
    CubicContour(g, FMul(Dec(8, 1), L_conical(g)),
                 RaoSlopes(theta_n, theta_e)[1], RaoSlopes(theta_n, theta_e)[2], N)

\* rao.py lines 16-126
rao_optimum_nozzle(cea_data, R_throat, N, theta_n, theta_e) ==
    RaoFrom(Design(cea_data, R_throat), N, theta_n, theta_e)

\* moc.py lines 127-138: the wall marched from (0, R_throat), point i onwards
RECURSIVE MarchWall(_, _, _, _, _, _)
MarchStep(R_throat, theta, mu_i, i, x_wall, r_wall, ds) ==
    MarchWall(R_throat, theta, mu_i, i + 1,
              Append(x_wall, FAdd(x_wall[i - 1], FMul(ds, FCos(theta[i])))),
              Append(r_wall, FAdd(r_wall[i - 1], FMul(ds, FSin(theta[i])))))

MarchWall(R_throat, theta, mu_i, i, x_wall, r_wall) ==
    IF i > Len(theta) THEN [x |-> x_wall, r |-> r_wall]
    ELSE MarchStep(R_throat, theta, mu_i, i, x_wall, r_wall,
                   FDiv(FMul(R_throat, FSub(theta[i], theta[i - 1])), FTan(mu_i[i])))

\* moc.py lines 112-138: the Mach numbers and Mach angles along theta, and
\* the wall marched through them
MocWall(R_throat, theta, gamma) ==
    MarchWall(R_throat, theta,
              [i \in 1..Len(theta) |->
                  FAsin(FDiv(One, inverse_prandtl_meyer(FMul(Two, theta[i]), gamma)))],
              2, <<Zero>>, <<R_throat>>)

\* moc.py lines 81-138
generate_moc_contour(area_ratio, gamma, N, R_throat) ==
    MocWall(R_throat,
            linspace(Zero,
                     FDiv(prandtl_meyer(moc_mach_from_area_ratio(area_ratio, gamma), gamma),
                          Two),
                     N),
            gamma)

\* moc_nozzle.py line 69: the contour goes back as generate_moc_contour made it
MocReturn(g, c) == Returned(c.x, c.r, g.props)

\* moc_nozzle.py lines 58-66: nu_max_rad is computed and not used
MocFrom(g, N, nu_max) ==
    LET nu_max_rad ==
            IF nu_max = None
            THEN prandtl_meyer(moc_mach_from_area_ratio(g.props.area_ratio, g.props.gamma),
                               g.props.gamma)
            ELSE Radians(nu_max)
    IN  MocReturn(g, generate_moc_contour(g.props.area_ratio, g.props.gamma, N, g.Rt))

\* moc_nozzle.py lines 17-71
moc_nozzle(cea_data, R_throat, N, nu_max) == MocFrom(Design(cea_data, R_throat), N, nu_max)

\* the tridiagonal system of the spline, swept forward: row i's pivot den[i]
\* and reduced right-hand side dp[i]
RECURSIVE SplineSweep(_, _, _, _, _, _, _)
SplineSweep(sub, diag, sup, b, i, den, dp) ==
    IF i > Len(diag) THEN [den |-> den, dp |-> dp]
    ELSE IF i = 1
    THEN SplineSweep(sub, diag, sup, b, 2, <<diag[1]>>, <<FDiv(b[1], diag[1])>>)
    ELSE LET d == FSub(diag[i], FMul(sub[i], FDiv(sup[i - 1], den[i - 1])))
         IN  SplineSweep(sub, diag, sup, b, i + 1, Append(den, d),
                         Append(dp, FDiv(FSub(b[i], FMul(sub[i], dp[i - 1])), d)))

\* and substituted back from the last row: s holds the slopes of rows i+1..n
RECURSIVE SplineBack(_, _, _, _)
SplineBack(sup, sw, i, s) ==
    IF i = 0 THEN s
    ELSE IF s = <<>> THEN SplineBack(sup, sw, i - 1, <<sw.dp[i]>>)
    ELSE SplineBack(sup, sw, i - 1,
                    <<FSub(sw.dp[i], FMul(FDiv(sup[i], sw.den[i]), s[1]))>> \o s)

\* scipy CubicSpline(x, y), bc_type "not-a-knot": the slopes s at the knots.
\* Two points give the chord, three the parabola through them, more the
\* tridiagonal system, solved here by elimination.
SplineSlopes(x, y) ==
    LET n == Len(x)
        dx == [i \in 1..(n - 1) |-> FSub(x[i + 1], x[i])]
        slope == [i \in 1..(n - 1) |-> FDiv(FSub(y[i + 1], y[i]), dx[i])]
        s1 == FDiv(FAdd(FMul(dx[1], slope[2]), FMul(dx[2], slope[1])), FAdd(dx[1], dx[2]))
        d0 == FSub(x[3], x[1])
        dn == FSub(x[n], x[n - 2])
        sub == [i \in 1..n |-> IF i = n THEN dn ELSE IF i = 1 THEN Zero ELSE dx[i]]
        diag == [i \in 1..n |-> IF i = 1 THEN dx[2]
                                ELSE IF i = n THEN dx[n - 2]
                                ELSE FMul(Two, FAdd(dx[i - 1], dx[i]))]
        sup == [i \in 1..n |-> IF i = 1 THEN d0 ELSE IF i = n THEN Zero ELSE dx[i - 1]]
        b == [i \in 1..n |->
                 IF i = 1
                 THEN FDiv(FAdd(FMul(FMul(FAdd(dx[1], FMul(Two, d0)), dx[2]), slope[1]),
                                FMul(FMul(dx[1], dx[1]), slope[2])), d0)
                 ELSE IF i = n
                 THEN FDiv(FAdd(FMul(FMul(dx[n - 1], dx[n - 1]), slope[n - 2]),
                                FMul(FMul(FAdd(FMul(Two, dn), dx[n - 1]), dx[n - 2]),
                                     slope[n - 1])), dn)
                 ELSE FMul(FromInt(3), FAdd(FMul(dx[i], slope[i - 1]),
                                            FMul(dx[i - 1], slope[i])))]
        s == SplineBack(sup, SplineSweep(sub, diag, sup, b, 1, <<>>, <<>>), n, <<>>)
    IN  IF n = 2 THEN <<slope[1], slope[1]>>
        ELSE IF n = 3 THEN <<FSub(FMul(Two, slope[1]), s1), s1, FSub(FMul(Two, slope[2]), s1)>>
        ELSE s

\* the interval of the piecewise polynomial that holds q
RECURSIVE SplineInterval(_, _, _)
SplineInterval(x, q, i) ==
    IF i < Len(x) - 1 /\ FGe(q, x[i + 1]) THEN SplineInterval(x, q, i + 1) ELSE i

\* cs(q): the cubic of q's interval
SplineAt(x, y, s, q) ==
    LET i == SplineInterval(x, q, 1)
        dx == FSub(x[i + 1], x[i])
        slope == FDiv(FSub(y[i + 1], y[i]), dx)
        t == FDiv(FSub(FAdd(s[i], s[i + 1]), FMul(Two, slope)), dx)
        c0 == FDiv(t, dx)
        c1 == FSub(FDiv(FSub(slope, s[i]), dx), t)
        h == FSub(q, x[i])
    IN  FAdd(FAdd(FAdd(FMul(c0, FPowInt(h, 3)), FMul(c1, FPowInt(h, 2))),
                  FMul(s[i], h)), y[i])

\* what CubicSpline refuses: fewer than two points, a value that is no
\* number, x not strictly increasing
SplineRejects(x, y) ==
    \/ Len(x) < 2
    \/ \E i \in 1..Len(x) : IsNaN(x[i]) \/ IsNaN(y[i])
    \/ \E i \in 1..(Len(x) - 1) : ~FLt(x[i], x[i + 1])

\* tic.py lines 74-81: the spline read at the truncated stations, both ends set
TicPoints(g, ideal, s, x_truncated, N) ==
    Returned(x_truncated,
             [i \in 1..N |-> IF i = 1 THEN g.Rt
                             ELSE IF i = N THEN g.R_exit
                             ELSE SplineAt(ideal.x, ideal.r, s, x_truncated[i])],
             g.props)

\* tic.py lines 63-74: the truncated length and the spline through the
\* ideal contour
TicSpline(g, ideal, N, truncation_factor) ==
    IF SplineRejects(ideal.x, ideal.r) THEN Raised("ValueError")
    ELSE TicPoints(g, ideal, SplineSlopes(ideal.x, ideal.r),
                   linspace(Zero, FMul(ideal.x[N], truncation_factor), N), N)

\* tic.py lines 57-61: the ideal contour is the MOC contour
TicFrom(g, N, truncation_factor) ==
    TicSpline(g, generate_moc_contour(g.props.area_ratio, g.props.gamma, N, g.Rt),
              N, truncation_factor)

\* tic.py lines 17-83
truncated_ideal_contour(cea_data, R_throat, N, truncation_factor) ==
    TicFrom(Design(cea_data, R_throat), N, truncation_factor)

\* base.py lines 102-108: the radius of the converging section at s in [0, 1]
ConvergingRadius(R_chamber, R_throat, s) ==
    LET s2 == FMul(FromInt(3), FPowInt(s, 2))
        s3 == FMul(Two, FPowInt(s, 3))
    IN  FAdd(FMul(R_chamber, FAdd(FSub(One, s2), s3)), FMul(R_throat, FSub(s2, s3)))

\* base.py lines 96-114: the chamber, the converging section and the contour
\* in one array each
InletArrays(x, r, R_throat, R_chamber, half, x_chamber, x_converging) ==
    [x |-> x_chamber \o x_converging \o x,
     r |-> [i \in 1..Len(x_chamber) |-> FMul(One, R_chamber)]
           \o [i \in 1..Len(x_converging) |->
                  ConvergingRadius(R_chamber, R_throat,
                                   FDiv(FAdd(x_converging[i], half), half))]
           \o r]

\* base.py lines 92-100
InletLengths(x, r, R_throat, R_chamber, chamber_length, half, N_inlet) ==
    InletArrays(x, r, R_throat, R_chamber, half,
                linspace(FNeg(chamber_length), FNeg(half), N_inlet \div 4),
                linspace(FNeg(half), Zero, N_inlet))

\* base.py lines 63-116
add_inlet_section(x, r, R_throat, chamber_radius_ratio, chamber_length_ratio, N_inlet) ==
    InletLengths(x, r, R_throat, FMul(R_throat, chamber_radius_ratio),
                 FMul(R_throat, chamber_length_ratio),
                 FDiv(FMul(R_throat, chamber_length_ratio), Two), N_inlet)

\* the throat taken at the exit end of the array
ArgLast(a, i, best) == Len(a)

\* np.argmin: the first index of the least value, or of the first NaN
RECURSIVE ArgMin(_, _, _)
ArgMin(a, i, best) ==
    IF i > Len(a) \/ IsNaN(a[best]) THEN best
    ELSE IF IsNaN(a[i]) \/ FLt(a[i], a[best]) THEN ArgMin(a, i + 1, i)
    ELSE ArgMin(a, i + 1, best)

\* the sum of f[lo..hi]
RECURSIVE SumOf(_, _, _)
SumOf(f, lo, hi) == IF lo > hi THEN Zero ELSE FAdd(f[lo], SumOf(f, lo + 1, hi))

\* np.polyfit(x, y, 1)[0] on the points from index lo: the least-squares slope
PolyfitSlope(x, y, lo) ==
    LET n == FromInt(Len(x) - lo + 1)
        sx == SumOf(x, lo, Len(x))
        sy == SumOf(y, lo, Len(x))
        sxy == SumOf([i \in 1..Len(x) |-> FMul(x[i], y[i])], lo, Len(x))
        sxx == SumOf([i \in 1..Len(x) |-> FMul(x[i], x[i])], lo, Len(x))
    IN  FDiv(FSub(FMul(n, sxy), FMul(sx, sy)), FSub(FMul(n, sxx), FMul(sx, sx)))

\* np.arctan(dr / dx) on numpy floats: a division by zero is infinite, or no
\* number when dr is zero too
ArctanOfRatio(dr, dx) ==
    IF dx = Zero /\ ~IsNaN(dr) /\ dr # Zero
    THEN FMul(FromInt(Sgn(dr.m)), FDiv(Pi, Two))
    ELSE FAtan(FDiv(dr, dx))

\* the angle without the regression: the last two points, or 15 degrees
DivergenceAngleOfLastTwo(x, r) ==
    IF Len(x) >= 2
    THEN ArctanOfRatio(FSub(r[Len(x)], r[Len(x) - 1]), FSub(x[Len(x)], x[Len(x) - 1]))
    ELSE Radians(FromInt(15))

\* performance.py lines 73-90: the divergence half-angle, in radians
DivergenceAngle(x, r) ==
    LET n == Len(x)
        exit_section_start == (9 * n) \div 10
    IN  IF exit_section_start < n - 2
        THEN FAtan(PolyfitSlope(x, r, exit_section_start + 1))
        ELSE IF n >= 2 THEN ArctanOfRatio(FSub(r[n], r[n - 1]), FSub(x[n], x[n - 1]))
        ELSE Radians(FromInt(15))

\* the nozzle_type strings records carry and the words each holds in lower case
TypeWords ==
    [t \in {"unknown", "conical", "Conical", "bell", "80% Bell", "Rao Optimum", "rao",
            "moc", "MOC", "tic"} |->
        IF t \in {"conical", "Conical"} THEN {"conical"}
        ELSE IF t \in {"bell", "80% Bell"} THEN {"bell"}
        ELSE IF t \in {"Rao Optimum", "rao"} THEN {"rao"}
        ELSE IF t \in {"moc", "MOC"} THEN {"moc"}
        ELSE {}]

\* word in nozzle_type.lower()
TypeHas(nozzle_type, word) == word \in TypeWords[nozzle_type]

\* performance.py lines 103-110: the area of the truncated cone between
\* points i - 1 and i
SegmentArea(x, r, i) ==
    FMul(FMul(FMul(Two, Pi), FDiv(FAdd(r[i], r[i - 1]), Two)),
         FSqrt(FAdd(FPowInt(FSub(x[i], x[i - 1]), 2), FPowInt(FSub(r[i], r[i - 1]), 2))))

\* performance.py lines 118-123
BaseEfficiency(area_ratio) ==
    IF FLt(area_ratio, FromInt(10)) THEN Dec(92, 2)
    ELSE IF FLt(area_ratio, FromInt(50)) THEN Dec(94, 2)
    ELSE Dec(96, 2)

\* the factor of a record whose type is never read
EfficiencyFactorOfNoType(cea_data) == One

\* performance.py lines 126-137
EfficiencyFactor(cea_data) ==
    LET nozzle_type == IF "nozzle_type" \in DOMAIN cea_data THEN cea_data["nozzle_type"]
                       ELSE "unknown"
    IN  IF TypeHas(nozzle_type, "conical") THEN Dec(98, 2)
        ELSE IF TypeHas(nozzle_type, "bell") \/ TypeHas(nozzle_type, "rao") THEN Dec(101, 2)
        ELSE IF TypeHas(nozzle_type, "moc") THEN Dec(102, 2)
        ELSE One

\* min(a, b) and max(a, b) of Python: the first argument unless the second
\* is strictly less, or strictly greater
PyMin(a, b) == IF FLt(b, a) THEN b ELSE a
PyMax(a, b) == IF FGt(b, a) THEN b ELSE a

\* performance.py lines 63-66: p_c * (1 + (gamma-1)/2 * M^2) ** (-gamma/(gamma-1))
ExitPressure(props) ==
    FMul(props.p_c,
         FPow(FAdd(One, FMul(FDiv(FSub(props.gamma, One), Two), FPowInt(props.m_exit, 2))),
              FDiv(FNeg(props.gamma), FSub(props.gamma, One))))

\* performance.py lines 68-71
IdealThrustCoefficient(gamma, p_c, p_exit) ==
    FSqrt(FMul(FMul(FDiv(FMul(Two, FPowInt(gamma, 2)), FSub(gamma, One)),
                    FPow(FDiv(Two, FAdd(gamma, One)),
                         FDiv(FAdd(gamma, One), FSub(gamma, One)))),
               FSub(One, FPow(FDiv(p_exit, p_c), FDiv(FSub(gamma, One), gamma)))))

\* performance.py lines 141-154: the dictionary returned
PerfReport(cea_data, x, r, props, throat_idx, r_throat, p_exit, area_ratio, C_f_ideal, divergence_angle, lambda_d) ==
    [area_ratio |-> area_ratio,
     pressure_ratio |-> FDiv(props.p_c, p_exit),
     thrust_coefficient |-> FMul(C_f_ideal, lambda_d),
     ideal_thrust_coefficient |-> C_f_ideal,
     discharge_coefficient |-> Dec(98, 2),
     surface_area |-> SumOf([i \in 1..Len(x) |->
                                IF i = 1 THEN Zero ELSE SegmentArea(x, r, i)],
                            2, Len(x)),
     nozzle_efficiency |->
         PyMin(Dec(99, 2),
               FMul(FMul(BaseEfficiency(area_ratio), EfficiencyFactor(cea_data)), lambda_d)),
     divergence_loss_factor |-> lambda_d,
     divergence_angle_deg |-> FDiv(FMul(divergence_angle, FromInt(180)), Pi),
     length_to_throat_ratio |-> FDiv(FSub(x[Len(x)], x[throat_idx]), r_throat),
     exit_mach_number |-> props.m_exit]

\* performance.py lines 91-93: the divergence loss factor
PerfLoss(cea_data, x, r, props, throat_idx, r_throat, p_exit, area_ratio, C_f_ideal, divergence_angle) ==
    PerfReport(cea_data, x, r, props, throat_idx, r_throat, p_exit, area_ratio, C_f_ideal,
               divergence_angle, FMul(Half, FAdd(One, FCos(divergence_angle))))

\* performance.py lines 56-90: the areas, the ideal coefficient and the angle
PerfFlow(cea_data, x, r, props, throat_idx, r_throat, p_exit) ==
    PerfLoss(cea_data, x, r, props, throat_idx, r_throat, p_exit,
             FDiv(FMul(Pi, FPowInt(r[Len(r)], 2)), FMul(Pi, FPowInt(r_throat, 2))),
             IdealThrustCoefficient(props.gamma, props.p_c, p_exit),
             DivergenceAngle(x, r))

\* performance.py lines 46-66: the throat and the exit pressure
PerfThroat(cea_data, x, r, props, throat_idx) ==
    PerfFlow(cea_data, x, r, props, throat_idx, PyMax(r[throat_idx], Dec(1, 6)),
             ExitPressure(props))

\* performance.py lines 15-154
calculate_performance(cea_data, x, r) ==
    PerfThroat(cea_data, x, r, get_throat_properties(cea_data), ArgMin(r, 1, 1))

\* ------------------------------------------------------------------------
\* cea_analyzer/util.py: mach_from_area_ratio
\* ------------------------------------------------------------------------

max_iterations == 50
tolerance == Dec(1, 8)

\* (2/(gamma+1) * term) ** ((gamma+1) / (2 (gamma-1)))
AreaPower(term, gamma) ==
    FPow(FMul(FDiv(Two, FAdd(gamma, One)), term),
         FDiv(FAdd(gamma, One), FMul(Two, FSub(gamma, One))))

\* the initial guess of the Newton iteration
InitialGuess(area_ratio) ==
    IF FGt(area_ratio, FromInt(5))
    THEN FAdd(One, FMul(Dec(8, 1), FLog10(area_ratio)))
    ELSE FAdd(One, FMul(Half, FSub(area_ratio, One)))

\* One pass of the loop body: f, df and M_new.  A Python float division by
\* zero raises ZeroDivisionError; above area_ratio 5 the estimate is a numpy
\* float (it comes from np.log10), whose division by zero yields no number.
NewtonUpdate(Mach, area_ratio, f, df) ==
    LET zerodiv == Mach.m = 0 \/ df.m = 0
    IN  [raises |-> zerodiv /\ ~IsNaN(Mach) /\ ~FGt(area_ratio, FromInt(5)),
         M_new |-> IF zerodiv THEN NaN ELSE FSub(Mach, FDiv(f, df))]

\* lines 151-156: f and df from term and its power pw
NewtonSlope(Mach, area_ratio, gamma, term, pw) ==
    NewtonUpdate(Mach, area_ratio,
                 FSub(FMul(FDiv(One, Mach), pw), area_ratio),
                 FMul(FMul(FDiv(One, FMul(Mach, Mach)), pw),
                      FSub(One, FDiv(FMul(FDiv(FAdd(gamma, One), Two), FMul(Mach, Mach)),
                                     term))))

NewtonPower(Mach, area_ratio, gamma, term) ==
    NewtonSlope(Mach, area_ratio, gamma, term, AreaPower(term, gamma))

NewtonStep(Mach, area_ratio, gamma) ==
    NewtonPower(Mach, area_ratio, gamma,
                FAdd(One, FMul(FMul(FMul(Half, FSub(gamma, One)), Mach), Mach)))

Converged(M_new, Mach) == FLt(FAbs(FSub(M_new, Mach)), tolerance)

\* lines 136-143: the input check and the initial guess
MachCall ==
    /\ UNCHANGED NotMach
    /\ mpc = "idle"
    /\ \E area_ratio \in MachAreaRatios, gamma \in MachGammas :
          /\ margs' = [impl |-> "util", area_ratio |-> area_ratio, gamma |-> gamma]
          /\ IF FLt(area_ratio, One)
             THEN /\ mpc' = "raised"
                  /\ merror' = "ValueError"
                  /\ UNCHANGED <<M, it, mresult, mlog>>
             ELSE /\ mpc' = "loop"
                  /\ M' = InitialGuess(area_ratio)
                  /\ UNCHANGED <<it, mresult, merror, mlog>>

\* lines 149-164: one iteration of the for loop
MachIter ==
    /\ UNCHANGED NotMach
    /\ mpc = "loop"
    /\ it < max_iterations
    /\ \E st \in {NewtonStep(M, margs.area_ratio, margs.gamma)} :
          IF st.raises
          THEN /\ mpc' = "raised"
               /\ merror' = "ZeroDivisionError"
               /\ UNCHANGED <<M, it, mresult>>
          ELSE IF Converged(st.M_new, M)
          THEN /\ mpc' = "returned"
               /\ mresult' = st.M_new
               /\ UNCHANGED <<M, it, merror>>
          ELSE /\ M' = st.M_new
               /\ it' = it + 1
               /\ UNCHANGED <<mpc, mresult, merror>>
    /\ UNCHANGED <<margs, mlog>>

\* what the loop's exit would be if running out of iterations were an error
MachExhaustedRaises ==
    /\ UNCHANGED NotMach
    /\ mpc = "loop"
    /\ it >= max_iterations
    /\ mpc' = "raised"
    /\ merror' = "ConvergenceError"
    /\ UNCHANGED <<margs, M, it, mresult, mlog>>

\* lines 166-167: the loop ran out
MachExhausted ==
    /\ UNCHANGED NotMach
    /\ mpc = "loop"
    /\ it >= max_iterations
    /\ mlog' = Append(mlog, "Mach calculation did not converge")
    /\ mresult' = M
    /\ mpc' = "returned"
    /\ UNCHANGED <<margs, M, it, merror>>

\* moc.py lines 57-79, the implementation get_throat_properties calls: no
\* input check, one fsolve from 2.0, whatever it ends on is returned
MocMachCall ==
    /\ UNCHANGED NotMach
    /\ mpc = "idle"
    /\ \E AR \in MachAreaRatios, gamma \in MachGammas :
          /\ margs' = [impl |-> "moc", area_ratio |-> AR, gamma |-> gamma]
          /\ mresult' = moc_mach_from_area_ratio(AR, gamma)
    /\ mpc' = "returned"
    /\ UNCHANGED <<M, it, merror, mlog>>

\* ------------------------------------------------------------------------
\* Calls of the generators
\* ------------------------------------------------------------------------

MaxN == 4
MaxCalls == 3

GenAreaRatios == {Half, One, Two, FromInt(4)}
GenRecords ==
    {("Ae/At" :> ar @@ "gamma" :> Dec(12, 1)) : ar \in GenAreaRatios}
    \cup {<<>>, ("Ae/At" :> FromInt(4) @@ "gamma" :> Two)}
GenThroatRadii == {None, Dec(1, 1), Zero}
GenPointCounts == 2..MaxN
GenPercents == {FromInt(60), FromInt(80), FromInt(100)}
\* nu_max of moc_nozzle in degrees: left out, and two angles
GenAngles == {None, FromInt(20), FromInt(40)}

\* the record the caller passed, as the generator reads it
RecordAreaRatio(cea_data) ==
    IF "Ae/At" \in DOMAIN cea_data THEN cea_data["Ae/At"] ELSE FromInt(8)

\* the throat radius and the exit radius a call works with
CallThroatRadius(call) == ThroatRadius(call.cea_data, call.R_throat)
CallExitRadius(call) ==
    FMul(CallThroatRadius(call), FSqrt(RecordAreaRatio(call.cea_data)))

\* base.py lines 30-60 and every generator after it: what a call on the
\* record hands to a logger, which is nothing; no default that is taken and
\* no gamma that is read is reported
ThroatLog(cea_data) == <<>>

\* the caller's bookkeeping of a call and of what it returned the first
\* time, and the log of the call
Called(call, outcome) ==
    /\ glog' = ThroatLog(call.cea_data)
    /\ strace' = Append(strace, call)
    /\ sfirst' = IF call \in DOMAIN sfirst THEN sfirst ELSE sfirst @@ (call :> outcome)

\* The calls take the sets their arguments are drawn from: records, throat
\* radii, point counts.
ConicalCall(Records, Radii, Counts) ==
    /\ gpc = "idle"
    /\ gpc' = "done"
    /\ \E cea_data \in Records, R_throat \in Radii, N \in Counts :
          /\ gcall' = [gen |-> "conical", cea_data |-> cea_data, R_throat |-> R_throat,
                       N |-> N]
          /\ gout' = conical_nozzle(cea_data, FromInt(15), R_throat, N)
    /\ Called(gcall', gout')
    /\ UNCHANGED NotGen

BellCall(Records, Radii, Counts, Percents) ==
    /\ gpc = "idle"
    /\ gpc' = "done"
    /\ \E cea_data \in Records, R_throat \in Radii, N \in Counts,
          percent_bell \in Percents :
          /\ gcall' = [gen |-> "bell", cea_data |-> cea_data, R_throat |-> R_throat,
                       N |-> N, percent_bell |-> percent_bell]
          /\ gout' = bell_nozzle(cea_data, R_throat, N, percent_bell)
    /\ Called(gcall', gout')
    /\ UNCHANGED NotGen

RaoCall(Records, Radii, Counts) ==
    /\ gpc = "idle"
    /\ gpc' = "done"
    /\ \E cea_data \in Records, R_throat \in Radii, N \in Counts :
          /\ gcall' = [gen |-> "rao", cea_data |-> cea_data, R_throat |-> R_throat,
                       N |-> N, theta_n |-> FromInt(30), theta_e |-> FromInt(7)]
          /\ gout' = rao_optimum_nozzle(cea_data, R_throat, N, FromInt(30), FromInt(7))
    /\ Called(gcall', gout')
    /\ UNCHANGED NotGen

MocCall(Records, Radii, Counts, Angles) ==
    /\ gpc = "idle"
    /\ gpc' = "done"
    /\ \E cea_data \in Records, R_throat \in Radii, N \in Counts, nu_max \in Angles :
          /\ gcall' = [gen |-> "moc", cea_data |-> cea_data, R_throat |-> R_throat,
                       N |-> N, nu_max |-> nu_max]
          /\ gout' = moc_nozzle(cea_data, R_throat, N, nu_max)
    /\ Called(gcall', gout')
    /\ UNCHANGED NotGen

TicCall(Records, Radii, Counts) ==
    /\ gpc = "idle"
    /\ gpc' = "done"
    /\ \E cea_data \in Records, R_throat \in Radii, N \in Counts :
          /\ gcall' = [gen |-> "tic", cea_data |-> cea_data, R_throat |-> R_throat,
                       N |-> N]
          /\ gout' = truncated_ideal_contour(cea_data, R_throat, N, Dec(8, 1))
    /\ Called(gcall', gout')
    /\ UNCHANGED NotGen

\* ------------------------------------------------------------------------
\* A caller's session: generator calls with inlet and performance calls on
\* the contour it holds
\* ------------------------------------------------------------------------

SessionRecords == {("Ae/At" :> ar @@ "gamma" :> Dec(12, 1)) : ar \in {Two, FromInt(4)}}
SessionInletPoints == 4

\* the caller goes on to its next call
CallerContinues ==
    /\ gpc = "done"
    /\ Len(strace) < MaxCalls
    /\ gpc' = "idle"
    /\ UNCHANGED <<gcall, gout, glog, svars, NotCaller>>

\* add_inlet_section on the contour the latest generator call returned
InletCall ==
    /\ gpc = "idle"
    /\ gout # None
    /\ gout.status = "returned"
    /\ sfull' = add_inlet_section(gout.x, gout.r, CallThroatRadius(gcall),
                                  Dec(25, 1), FromInt(3), SessionInletPoints)
    /\ strace' = Append(strace, [gen |-> "add_inlet_section"])
    /\ gpc' = "done"
    /\ UNCHANGED <<gcall, gout, glog, sreport, sfirst, NotCaller>>

\* calculate_performance on the same contour
PerformanceCall ==
    /\ gpc = "idle"
    /\ gout # None
    /\ gout.status = "returned"
    /\ sreport' = calculate_performance(gcall.cea_data, gout.x, gout.r)
    /\ strace' = Append(strace, [gen |-> "calculate_performance"])
    /\ gpc' = "done"
    /\ UNCHANGED <<gcall, gout, glog, sfull, sfirst, NotCaller>>

\* ------------------------------------------------------------------------
\* src/nozzle.py: the loops that run over the fitted radii before returning
\* ------------------------------------------------------------------------

MaxRepairLen == 4
MaxRadius == 4

\* arrays r with r[0] = R_throat = 1 and r[-1] = R_exit >= R_throat
RepairArrays ==
    UNION {{a \in [1..n -> {FromInt(k) : k \in 1..MaxRadius}] : a[1] = One}
           : n \in 3..MaxRepairLen}

HasDecrease(a) == \E i \in 2..Len(a) : FLt(a[i], a[i - 1])

\* the loop is entered with the array the fit produced
RepairStart(gen, a) ==
    /\ rpc = "idle"
    /\ rpc' = "loop"
    /\ rgen' = gen
    /\ rin' = a
    /\ rarr' = a
    /\ ri' = 1
    /\ UNCHANGED NotRepair

\* r[i] in the source's 0-based indexing
At0(a, i) == a[i + 1]

\* lines 229-235 (rao_optimum_nozzle): one pass of the loop body
RaoRepairStep ==
    /\ rpc = "loop"
    /\ rgen = "rao"
    /\ ri < Len(rarr)
    /\ LET remaining_points == Len(rarr) - ri
           progress_factor == IF remaining_points > 0
                              THEN FDiv(One, FromInt(remaining_points))
                              ELSE Dec(1, 1)
       IN  rarr' = IF FLt(At0(rarr, ri), At0(rarr, ri - 1))
                   THEN [rarr EXCEPT ![ri + 1] =
                            FAdd(At0(rarr, ri - 1),
                                 FMul(progress_factor,
                                      FSub(rarr[Len(rarr)], At0(rarr, ri - 1))))]
                   ELSE rarr
    /\ ri' = ri + 1
    /\ UNCHANGED <<rpc, rgen, rin, NotRepair>>

\* lines 332-335 (bell_nozzle); R_throat is r[0]
BellRepairStep ==
    /\ rpc = "loop"
    /\ rgen = "bell"
    /\ ri < Len(rarr)
    /\ rarr' = IF FLe(At0(rarr, ri), At0(rarr, ri - 1))
               THEN [rarr EXCEPT ![ri + 1] =
                        FAdd(At0(rarr, ri - 1),
                             FMul(FMul(Dec(1, 4), rin[1]),
                                  FDiv(FromInt(ri), FromInt(Len(rarr)))))]
               ELSE rarr
    /\ ri' = ri + 1
    /\ UNCHANGED <<rpc, rgen, rin, NotRepair>>

\* the value both remaining loops write: the chord from r[0] to r[-1] at i
ChordAt(a, i) ==
    LET fraction == FDiv(FromInt(i - 0), FromInt(Len(a) - 1 - 0))
    IN  FAdd(a[1], FMul(fraction, FSub(a[Len(a)], a[1])))

\* lines 410-415 (moc_nozzle)
MocRepairStep ==
    /\ rpc = "loop"
    /\ rgen = "moc"
    /\ ri < Len(rarr)
    /\ rarr' = IF FLt(At0(rarr, ri), At0(rarr, ri - 1))
               THEN [rarr EXCEPT ![ri + 1] = ChordAt(rarr, ri)]
               ELSE rarr
    /\ ri' = ri + 1
    /\ UNCHANGED <<rpc, rgen, rin, NotRepair>>

\* lines 516-521 (truncated_ideal_contour)
TicRepairStep ==
    /\ rpc = "loop"
    /\ rgen = "tic"
    /\ ri < Len(rarr)
    /\ rarr' = IF FLt(At0(rarr, ri), At0(rarr, ri - 1))
               THEN [rarr EXCEPT ![ri + 1] = ChordAt(rarr, ri)]
               ELSE rarr
    /\ ri' = ri + 1
    /\ UNCHANGED <<rpc, rgen, rin, NotRepair>>

\* the loop is over and the generator returns the array
RepairReturn ==
    /\ rpc = "loop"
    /\ ri >= Len(rarr)
    /\ rpc' = "done"
    /\ UNCHANGED <<rgen, rin, rarr, ri, NotRepair>>

\* ------------------------------------------------------------------------
\* src/nozzle.py: bell_nozzle and truncated_ideal_contour of the module the
\* package was split from, with their repair loops run to the end
\* ------------------------------------------------------------------------

\* nozzle.py lines 283-292: (initial_angle, exit_angle) in degrees
NozzleBellAngles(percent_bell) ==
    IF FLe(percent_bell, FromInt(60)) THEN <<FromInt(40), FromInt(18)>>
    ELSE IF FLe(percent_bell, FromInt(80)) THEN <<FromInt(35), FromInt(12)>>
    ELSE <<FromInt(30), FromInt(8)>>

\* nozzle.py lines 306 and 315: (initial_slope, m2)
NozzleBellSlopes(percent_bell) ==
    <<FTan(FMul(Radians(NozzleBellAngles(percent_bell)[1]), Dec(4, 1))),
      FTan(Radians(NozzleBellAngles(percent_bell)[2]))>>

\* nozzle.py lines 310-319: the coefficients in closed form
NozzleBellCubic(g, L_bell, c, m2) ==
    [a |-> FDiv(FAdd(FMul(Two, FSub(g.Rt, g.R_exit)), FMul(FAdd(c, m2), L_bell)),
                FPowInt(L_bell, 3)),
     b |-> FDiv(FSub(FMul(FromInt(3), FSub(g.R_exit, g.Rt)),
                     FMul(FAdd(FMul(Two, c), m2), L_bell)),
                FPowInt(L_bell, 2)),
     c |-> c,
     d |-> g.Rt]

\* nozzle.py lines 332-335: the loop from index i to the end
RECURSIVE NozzleBellRepair(_, _, _)
NozzleBellRepair(r, i, R_throat) ==
    IF i >= Len(r) THEN r
    ELSE NozzleBellRepair(
             IF FLe(At0(r, i), At0(r, i - 1))
             THEN [r EXCEPT ![i + 1] =
                      FAdd(At0(r, i - 1),
                           FMul(FMul(Dec(1, 4), R_throat),
                                FDiv(FromInt(i), FromInt(Len(r)))))]
             ELSE r,
             i + 1, R_throat)

\* nozzle.py lines 322-337: the radii of the cubic, both ends set, repaired
NozzleBellPoints(g, coefs, x, N) ==
    Returned(x,
             NozzleBellRepair([i \in 1..N |-> IF i = N THEN g.R_exit
                                              ELSE IF i = 1 THEN g.Rt
                                              ELSE CubicAt(coefs, x[i])],
                              1, g.Rt),
             g.props)

\* nozzle.py lines 305-323
NozzleBellFit(g, L_bell, N, percent_bell) ==
    NozzleBellPoints(g,
                     NozzleBellCubic(g, L_bell, NozzleBellSlopes(percent_bell)[1],
                                     NozzleBellSlopes(percent_bell)[2]),
                     linspace(Zero, L_bell, N), N)

\* nozzle.py lines 275-281
NozzleBellFrom(g, N, percent_bell) ==
    NozzleBellFit(g, FDiv(FMul(L_conical(g), percent_bell), FromInt(100)), N,
                  percent_bell)

\* nozzle.py lines 239-337
nozzle_bell_nozzle(cea_data, R_throat, N, percent_bell) ==
    NozzleBellFrom(Design(cea_data, R_throat), N, percent_bell)

\* np.arctan2(y, x)
arctan2(y, x) ==
    IF FGt(x, Zero) THEN FAtan(FDiv(y, x))
    ELSE IF FLt(x, Zero)
         THEN (IF FGe(y, Zero) THEN FAdd(FAtan(FDiv(y, x)), Pi)
               ELSE FSub(FAtan(FDiv(y, x)), Pi))
    ELSE IF FGt(y, Zero) THEN FDiv(Pi, Two)
    ELSE IF FLt(y, Zero) THEN FNeg(FDiv(Pi, Two))
    ELSE Zero

\* interp1d, kind "linear": the index above q, np.searchsorted clipped to
\* the last interval
RECURSIVE InterpAbove(_, _, _)
InterpAbove(x, q, k) ==
    IF k < Len(x) /\ FLt(x[k], q) THEN InterpAbove(x, q, k + 1) ELSE k

\* interp1d, kind "linear", fill_value "extrapolate", read at q
LinearAt(x, y, q) ==
    LET hi == InterpAbove(x, q, 2)
        slope == FDiv(FSub(y[hi], y[hi - 1]), FSub(x[hi], x[hi - 1]))
    IN  FAdd(FMul(slope, FSub(q, x[hi - 1])), y[hi - 1])

\* nozzle.py lines 473-483: r_truncated, cubic through four points or more,
\* linear below, with r_truncated[0] set
NozzleTicInterp(g, ideal, s, x_truncated, N) ==
    [i \in 1..N |-> IF i = 1 THEN g.Rt
                    ELSE IF Len(ideal.x) > 3
                         THEN SplineAt(ideal.x, ideal.r, s, x_truncated[i])
                    ELSE LinearAt(ideal.x, ideal.r, x_truncated[i])]

\* nozzle.py lines 516-521: the loop from index i to the end
RECURSIVE NozzleTicRepair(_, _)
NozzleTicRepair(r, i) ==
    IF i >= Len(r) THEN r
    ELSE NozzleTicRepair(IF FLt(At0(r, i), At0(r, i - 1))
                         THEN [r EXCEPT ![i + 1] = ChordAt(r, i)]
                         ELSE r,
                         i + 1)

\* nozzle.py lines 512-523: the exit radius set, the loop, the return
NozzleTicReturn(g, x_truncated, r_truncated) ==
    Returned(x_truncated,
             NozzleTicRepair([r_truncated EXCEPT ![Len(r_truncated)] = g.R_exit], 1),
             g.props)

\* nozzle.py lines 500-510: the extension along the angle exit_angle
NozzleTicExtension(g, x_truncated, r_truncated, N, slope, x_extension) ==
    NozzleTicReturn(g, x_truncated \o x_extension,
                    r_truncated \o
                    [i \in 1..Len(x_extension) |->
                        FAdd(r_truncated[N],
                             FMul(slope, FSub(x_extension[i], x_truncated[N])))])

\* nozzle.py lines 492-504: the angle of the last segment and the stations
\* of the extension
NozzleTicExtend(g, x_truncated, r_truncated, N, exit_angle) ==
    NozzleTicExtension(g, x_truncated, r_truncated, N, FTan(exit_angle),
                       Tail(linspace(x_truncated[N],
                                     FAdd(x_truncated[N],
                                          FDiv(FSub(g.R_exit, r_truncated[N]),
                                               FTan(exit_angle))),
                                     (IF 5 > N \div 10 THEN 5 ELSE N \div 10) + 1)))

\* nozzle.py lines 485-512
NozzleTicExit(g, x_truncated, r_truncated, N) ==
    IF FLt(FPowInt(FDiv(r_truncated[N], g.Rt), 2), g.props.area_ratio)
    THEN NozzleTicExtend(g, x_truncated, r_truncated, N,
                         PyMax(Dec(5, 2),
                               arctan2(FSub(r_truncated[N], r_truncated[N - 1]),
                                       FSub(x_truncated[N], x_truncated[N - 1]))))
    ELSE NozzleTicReturn(g, x_truncated, r_truncated)

\* nozzle.py lines 464-481
NozzleTicTruncate(g, ideal, x_truncated, N) ==
    NozzleTicExit(g, x_truncated,
                  NozzleTicInterp(g, ideal,
                                  IF Len(ideal.x) > 3 THEN SplineSlopes(ideal.x, ideal.r)
                                  ELSE <<>>,
                                  x_truncated, N),
                  N)

\* nozzle.py lines 459-470: the baseline is the 100% bell
NozzleTicFrom(g, N, truncation_factor) ==
    NozzleTicTruncate(g, NozzleBellFrom(g, N, FromInt(100)),
                      linspace(Zero,
                               FMul(NozzleBellFrom(g, N, FromInt(100)).x[N],
                                    truncation_factor), N),
                      N)

\* nozzle.py lines 419-523
nozzle_truncated_ideal_contour(cea_data, R_throat, N, truncation_factor) ==
    NozzleTicFrom(Design(cea_data, R_throat), N, truncation_factor)

LegacyRecords ==
    {("Ae/At" :> ar @@ "gamma" :> Dec(12, 1))
        : ar \in {Dec(15, 1), Two, FromInt(4), FromInt(8)}}
LegacyPercents == {FromInt(60), FromInt(80), FromInt(90), FromInt(100)}

NozzleBellCall ==
    /\ gpc = "idle"
    /\ gpc' = "done"
    /\ \E cea_data \in LegacyRecords, R_throat \in {None, Dec(1, 1)},
          N \in GenPointCounts, percent_bell \in LegacyPercents :
          /\ gcall' = [gen |-> "bell", cea_data |-> cea_data, R_throat |-> R_throat,
                       N |-> N, percent_bell |-> percent_bell]
          /\ gout' = nozzle_bell_nozzle(cea_data, R_throat, N, percent_bell)
    /\ Called(gcall', gout')
    /\ UNCHANGED NotGen

NozzleTicCall ==
    /\ gpc = "idle"
    /\ gpc' = "done"
    /\ \E cea_data \in LegacyRecords, R_throat \in {None, Dec(1, 1)},
          N \in GenPointCounts :
          /\ gcall' = [gen |-> "tic", cea_data |-> cea_data, R_throat |-> R_throat,
                       N |-> N]
          /\ gout' = nozzle_truncated_ideal_contour(cea_data, R_throat, N, Dec(8, 1))
    /\ Called(gcall', gout')
    /\ UNCHANGED NotGen

\* ------------------------------------------------------------------------
\* add_inlet_section called on a contour of the caller's: base.py's and
\* src/nozzle.py's
\* ------------------------------------------------------------------------

\* nozzle.py line 556: np.argmin(np.abs(x)), counted from 1
NozzleThroatIndex(x) == ArgMin([i \in 1..Len(x) |-> FAbs(x[i])], 1, 1)

\* nozzle.py line 557
NozzleShifted(x) == [i \in 1..Len(x) |-> FSub(x[i], x[NozzleThroatIndex(x)])]

\* nozzle.py lines 560-564: the loop writes into r, the array it was passed
NozzleInletArgument(x, r) ==
    [i \in 1..Len(r) |->
        IF i > NozzleThroatIndex(x) /\ FLt(r[i], r[NozzleThroatIndex(x)])
        THEN FAdd(r[NozzleThroatIndex(x)],
                  FMul(FMul(FromInt(i - NozzleThroatIndex(x)), Dec(1, 3)),
                       r[NozzleThroatIndex(x)]))
        ELSE r[i]]

\* nozzle.py lines 583-587: the cosine profile with its last radius set
NozzleConverging(R_chamber, R_throat, alpha) ==
    [k \in 1..Len(alpha) |->
        IF k = Len(alpha) THEN R_throat
        ELSE FSub(R_chamber, FMul(FSub(R_chamber, R_throat), FSin(alpha[k])))]

\* nozzle.py lines 590-592: the loop from index i to the end
RECURSIVE NozzleConvergingFix(_, _, _)
NozzleConvergingFix(r_converging, i, R_throat) ==
    IF i >= Len(r_converging) THEN r_converging
    ELSE NozzleConvergingFix(
             IF FGt(At0(r_converging, i), At0(r_converging, i - 1))
             THEN [r_converging EXCEPT ![i + 1] =
                      FSub(At0(r_converging, i - 1), FMul(Dec(1, 3), R_throat))]
             ELSE r_converging,
             i + 1, R_throat)

\* nozzle.py lines 607-609: the loop from index i to throat_idx
RECURSIVE NozzleClampConverging(_, _, _)
NozzleClampConverging(r_full, i, throat_idx) ==
    IF i > throat_idx THEN r_full
    ELSE NozzleClampConverging(
             IF FGt(At0(r_full, i), At0(r_full, i - 1))
             THEN [r_full EXCEPT ![i + 1] = FMul(At0(r_full, i - 1), Dec(99, 2))]
             ELSE r_full,
             i + 1, throat_idx)

\* nozzle.py lines 612-614: the loop from index i to the end
RECURSIVE NozzleClampDiverging(_, _)
NozzleClampDiverging(r_full, i) ==
    IF i >= Len(r_full) THEN r_full
    ELSE NozzleClampDiverging(
             IF FLt(At0(r_full, i), At0(r_full, i - 1))
             THEN [r_full EXCEPT ![i + 1] = FMul(At0(r_full, i - 1), Dec(101, 2))]
             ELSE r_full,
             i + 1)

\* nozzle.py lines 598-616: the inlet joined to the contour without its
\* first point, and the two loops over the whole
NozzleInletFull(x_shifted, r, x_inlet, r_inlet) ==
    [x |-> x_inlet \o Tail(x_shifted),
     r |-> NozzleClampDiverging(
               NozzleClampConverging(r_inlet \o Tail(r), 1, Len(x_inlet) - 1),
               Len(x_inlet))]

\* nozzle.py lines 572-596: the chamber and the converging section without
\* its first point
NozzleInletSections(x_shifted, r, R_throat, R_chamber, L_chamber, N_chamber, N_converging) ==
    NozzleInletFull(x_shifted, r,
        linspace(FNeg(L_chamber), FDiv(FNeg(L_chamber), Two), N_chamber)
            \o Tail(linspace(FDiv(FNeg(L_chamber), Two), Zero, N_converging)),
        [i \in 1..N_chamber |-> FMul(One, R_chamber)]
            \o Tail(NozzleConvergingFix(
                        NozzleConverging(R_chamber, R_throat,
                                         linspace(Zero, FDiv(Pi, Two), N_converging)),
                        1, R_throat)))

\* nozzle.py lines 525-616: what the call returns
nozzle_add_inlet_section(x, r, R_throat, chamber_radius_ratio, chamber_length_ratio, N_inlet) ==
    NozzleInletSections(NozzleShifted(x), NozzleInletArgument(x, r), R_throat,
                        FMul(R_throat, chamber_radius_ratio),
                        FMul(R_throat, chamber_length_ratio),
                        N_inlet \div 3, N_inlet - N_inlet \div 3)

MaxInletLen == 3
MaxInletRadius == 4

\* the contours passed: x = 0, 1, ... from the throat, radii of any shape
\* from the throat radius 2
InletContours ==
    UNION {{[x |-> [i \in 1..n |-> FromInt(i - 1)], r |-> a]
              : a \in {b \in [1..n -> {FromInt(k) : k \in 1..MaxInletRadius}]
                          : b[1] = Two}}
           : n \in 2..MaxInletLen}
InletPointCounts == {4, 8}
InletLengthRatios == {Two, FromInt(3)}

\* the arguments of a call on the contour c
InletArguments(impl, c, chamber_length_ratio, N_inlet) ==
    [impl |-> impl, x |-> c.x, r |-> c.r, R_throat |-> c.r[1],
     chamber_radius_ratio |-> Dec(25, 1),
     chamber_length_ratio |-> chamber_length_ratio, N_inlet |-> N_inlet]

\* base.py's add_inlet_section reads x and r and writes to neither
BaseInletCall ==
    /\ ipc = "idle"
    /\ ipc' = "done"
    /\ \E c \in InletContours, chamber_length_ratio \in InletLengthRatios,
          N_inlet \in InletPointCounts :
          /\ icall' = InletArguments("base", c, chamber_length_ratio, N_inlet)
          /\ ifull' = add_inlet_section(c.x, c.r, c.r[1], Dec(25, 1),
                                        chamber_length_ratio, N_inlet)
          /\ iarrays' = [x |-> c.x, r |-> c.r]
    /\ UNCHANGED NotInlet

\* nozzle.py's add_inlet_section writes to r before it builds the inlet
NozzleInletCall ==
    /\ ipc = "idle"
    /\ ipc' = "done"
    /\ \E c \in InletContours, chamber_length_ratio \in InletLengthRatios,
          N_inlet \in InletPointCounts :
          /\ icall' = InletArguments("nozzle", c, chamber_length_ratio, N_inlet)
          /\ ifull' = nozzle_add_inlet_section(c.x, c.r, c.r[1], Dec(25, 1),
                                               chamber_length_ratio, N_inlet)
          /\ iarrays' = [x |-> c.x, r |-> NozzleInletArgument(c.x, c.r)]
    /\ UNCHANGED NotInlet

\* ------------------------------------------------------------------------
\* calculate_performance called on a contour of the caller's
\* ------------------------------------------------------------------------

\* the records passed: with each nozzle_type string and without one
PerfRecords ==
    {("Ae/At" :> FromInt(4) @@ "gamma" :> Dec(12, 1) @@ "nozzle_type" :> t)
        : t \in DOMAIN TypeWords}
    \cup {("Ae/At" :> FromInt(4) @@ "gamma" :> Dec(12, 1))}

\* the least number of points with int(0.9 * n) < n - 2
PerfLongLen == 21

\* the contours passed: three points from the throat radius 1, on two axial
\* grids, one whose last two points coincide, one of a single point, and one
\* of PerfLongLen points that steepens at its last point
PerfContours ==
    {[x |-> <<Zero, FromInt(d), FromInt(2 * d)>>, r |-> <<One, FromInt(a), FromInt(b)>>]
        : d \in {1, 2}, a \in {2, 4, 8}, b \in {2, 4, 8}}
    \cup {[x |-> <<Zero, One, One>>, r |-> <<One, Two, Two>>]}
    \cup {[x |-> <<Zero>>, r |-> <<One>>]}
    \cup {[x |-> [i \in 1..PerfLongLen |-> FromInt(i - 1)],
           r |-> [i \in 1..PerfLongLen |-> FromInt(IF i = PerfLongLen THEN i + 1 ELSE i)]]}

PerformanceOnContour ==
    /\ pcall = None
    /\ \E cea_data \in PerfRecords, c \in PerfContours :
          /\ pcall' = [cea_data |-> cea_data, x |-> c.x, r |-> c.r]
          /\ preport' = calculate_performance(cea_data, c.x, c.r)
    /\ UNCHANGED NotPerformance

\* ------------------------------------------------------------------------
\* util.py: pressure_ratio_from_mach and solve_mach
\* ------------------------------------------------------------------------

\* a double whose magnitude is below half the smallest subnormal,
\* 2.4703282e-324, is 0.0: float ** float underflows without raising
Underflows(x) == x.m # 0 /\ (x.e + 7 < -324 \/ (x.e + 7 = -324 /\ Abs(x.m) < 24703283))
PyPow(x, y) == IF Underflows(FPow(x, y)) THEN Zero ELSE FPow(x, y)

pressure_ratio_from_mach(mach, gamma) ==
    PyPow(FAdd(One, FMul(FMul(Half, FSub(gamma, One)), FPowInt(mach, 2))),
          FDiv(FNeg(gamma), FSub(gamma, One)))

\* the nested function f of solve_mach
SolveF(Mv, gamma) ==
    PyPow(FAdd(One, FMul(FMul(FMul(Half, FSub(gamma, One)), Mv), Mv)),
          FDiv(FNeg(gamma), FSub(gamma, One)))

\* lo, hi and mid are held exactly to 1e-9, a tenth of the tolerance, as
\* [a, b] for (a * 10^5 + b) * 1e-9: eight digits cannot tell the ends of
\* the last brackets apart, the double can
Ticks(a, b) == [a |-> a, b |-> b]
Lo0 == Ticks(0, 1000)
Hi0 == Ticks(500000, 0)
TicksFloat(v) == FAdd(Mk(v.a, -4), Mk(v.b, -9))
\* hi - lo > tolerance, tolerance = 1e-8
Tolerance == 10
BracketOpen(l, h) == IF h.a - l.a >= 2 THEN TRUE ELSE (h.a - l.a) * 100000 + h.b - l.b > Tolerance
\* 0.5 * (lo + hi)
MidCarry(a, b) == IF b >= 100000 THEN Ticks(a + 1, b - 100000) ELSE Ticks(a, b)
Mid(l, h) == MidCarry((l.a + h.a) \div 2, (((l.a + h.a) % 2) * 100000 + l.b + h.b) \div 2)

\* Mach numbers of the round trip: below the first bracket, subsonic,
\* supersonic, near the upper end
SolveMachs == {Mk(1, -7), Half, Two, FromInt(30), FromInt(49)}
SolveGammas == {Dec(14, 1), Dec(12, 1), Dec(1001, 3)}

InvalidPressureRatio(p_ratio) == ~(FGt(p_ratio, Zero) /\ FLe(p_ratio, One))

\* the test's round trip: the ratio is computed, then solve_mach entered up
\* to its loop
SolveEnter(mach, gamma, p_ratio) ==
    /\ bcall' = [mach |-> mach, gamma |-> gamma, p_ratio |-> p_ratio]
    /\ blog' = IF InvalidPressureRatio(p_ratio) THEN <<"Invalid pressure ratio">> ELSE <<>>
    /\ blo' = Lo0
    /\ bhi' = Hi0
    /\ IF InvalidPressureRatio(p_ratio) /\ FGt(p_ratio, One)
          THEN bpc' = "returned" /\ bresult' = Zero
          ELSE IF InvalidPressureRatio(p_ratio) /\ FLe(p_ratio, Zero)
          THEN bpc' = "returned" /\ bresult' = FromInt(50)
          ELSE IF FLe(gamma, One)
          THEN bpc' = "raised" /\ bresult' = None
          ELSE bpc' = "loop" /\ bresult' = None

SolveCall ==
    /\ bpc # "loop"
    /\ \E mach \in SolveMachs, gamma \in SolveGammas :
          SolveEnter(mach, gamma, pressure_ratio_from_mach(mach, gamma))
    /\ UNCHANGED NotSolve

SolveStep ==
    /\ bpc = "loop"
    /\ BracketOpen(blo, bhi)
    /\ IF FGt(SolveF(TicksFloat(Mid(blo, bhi)), bcall.gamma), bcall.p_ratio)
          THEN blo' = Mid(blo, bhi) /\ bhi' = bhi
          ELSE bhi' = Mid(blo, bhi) /\ blo' = blo
    /\ UNCHANGED <<bpc, bcall, bresult, blog, NotSolve>>

SolveReturn ==
    /\ bpc = "loop"
    /\ ~BracketOpen(blo, bhi)
    /\ bpc' = "returned"
    /\ bresult' = TicksFloat(Mid(blo, bhi))
    /\ UNCHANGED <<bcall, blo, bhi, blog, NotSolve>>

\* ------------------------------------------------------------------------
\* moc.py: inverse_prandtl_meyer called on its own
\* ------------------------------------------------------------------------

\* the angle nu(M) tends to as M grows: (pi / 2) * (sqrt((g + 1) / (g - 1)) - 1)
PmLimit(gamma) ==
    FMul(FMul(Half, Pi), FSub(FSqrt(FDiv(FAdd(gamma, One), FSub(gamma, One))), One))

\* target angles in radians, 0.001, 0.01 and every 0.05 up to 3.6
MaxAngleStep == 72
PmAngles == {Mk(1, -3), Mk(1, -2)} \cup {Dec(5 * k, 2) : k \in 1..MaxAngleStep}
PmGammas == {Dec(12, 1), Dec(13, 1), Dec(14, 1)}

PmCall ==
    /\ qcall = None
    /\ \E nu_target \in PmAngles, gamma \in PmGammas :
          /\ FLt(nu_target, PmLimit(gamma))
          /\ qcall' = [nu_target |-> nu_target, gamma |-> gamma]
          /\ qmach' = inverse_prandtl_meyer(nu_target, gamma)
    /\ UNCHANGED NotPm

\* ------------------------------------------------------------------------
\* The callers of the generators: Nozzle.generate_contour
\* (propulsion/motor/components.py) and NozzleDesignWidget
\* (ui/widgets/nozzle_design_widget.py)
\* ------------------------------------------------------------------------

\* the points of a contour where the caller leaves N to the generator, and
\* the characteristic lines of the widget's spin box: 100 and 10..100 in the
\* source, brought down here; no assignment of the callers depends on them
DefaultPoints == 4

\* the record d with key k set to v
RecordWith(d, k, v) == [x \in DOMAIN d \cup {k} |-> IF x = k THEN v ELSE d[x]]

\* the parameters of conical_nozzle (conical.py line 15)
ConicalParameters == {"cea_data", "half_angle", "R_throat", "N"}

\* a call of conical_nozzle with the keywords given: Python raises TypeError
\* for a keyword the function does not have
ConicalWithKeywords(keywords, cea_data, half_angle, R_throat) ==
    IF keywords \subseteq ConicalParameters
    THEN conical_nozzle(cea_data, half_angle, R_throat, DefaultPoints)
    ELSE Raised("TypeError")

\* components.py lines 92-97: the record used when the caller gives none
DefaultRecord(nozzle) == ("gamma" :> Dec(12, 1)) @@ ("area_ratio" :> nozzle.expansion_ratio)

\* components.py lines 99-123 on the record in use: [out, log]
ContourOfType(nozzle, cea_data, R_throat) ==
    IF nozzle.contour_type = "Conical"
    THEN [out |-> ConicalWithKeywords({"R_throat", "half_angle", "area_ratio"}, cea_data,
                                      nozzle.half_angle, R_throat),
          log |-> <<>>]
    ELSE IF nozzle.contour_type \in {"Bell", "80% Bell"}
    THEN [out |-> bell_nozzle(cea_data, R_throat, DefaultPoints, nozzle.percentage_bell),
          log |-> <<>>]
    ELSE IF nozzle.contour_type = "Rao Optimum"
    THEN [out |-> rao_optimum_nozzle(cea_data, R_throat, DefaultPoints, FromInt(30), FromInt(7)),
          log |-> <<>>]
    ELSE [out |-> ConicalWithKeywords({"R_throat"}, cea_data, FromInt(15), R_throat),
          log |-> <<"Unsupported nozzle type">>]

\* components.py lines 88-123
generate_contour(nozzle, cea_data) ==
    ContourOfType(nozzle, IF cea_data = None THEN DefaultRecord(nozzle) ELSE cea_data,
                  FDiv(nozzle.throat_diameter, Two))

\* the nozzles and the records generate_contour is called with
ComponentTypes == {"Conical", "Bell", "80% Bell", "Rao Optimum", "MOC", "conical"}
ComponentRatios == {FromInt(4), FromInt(8), FromInt(16)}
ComponentDiameters == {Dec(1, 1), Dec(2, 1)}
ComponentPercents == {FromInt(60), FromInt(80)}
ComponentRecords == {None, ("Ae/At" :> FromInt(4)) @@ ("gamma" :> Dec(12, 1))}
Nozzles ==
    {[throat_diameter |-> d, expansion_ratio |-> e, contour_type |-> t,
      half_angle |-> FromInt(15), percentage_bell |-> pb]
        : d \in ComponentDiameters, e \in ComponentRatios, t \in ComponentTypes,
          pb \in ComponentPercents}

GenerateContour ==
    /\ ccall = None
    /\ wrun = 0
    /\ self_cea_data = None
    /\ \E nozzle \in Nozzles, cea_data \in ComponentRecords :
          /\ ccall' = [nozzle |-> nozzle, cea_data |-> cea_data]
          /\ \E done \in {generate_contour(nozzle, cea_data)} :
                cout' = done.out /\ clog' = done.log
    /\ UNCHANGED NotComponent

\* the items of the nozzle type combo box (lines 76-82) and the phrases
\* _generate_nozzle looks for that each contains
ComboWords ==
    [t \in {"Conical", "Bell (80%)", "Rao Optimum", "Method of Characteristics (MOC)",
            "Truncated Ideal Contour (TIC)"} |->
        IF t = "Conical" THEN {"Conical"}
        ELSE IF t = "Bell (80%)" THEN {"Bell"}
        ELSE IF t = "Rao Optimum" THEN {"Rao Optimum"}
        ELSE IF t = "Method of Characteristics (MOC)" THEN {"Method of Characteristics"}
        ELSE {"Truncated Ideal Contour"}]

\* lines 329-356: the value written to cea_data['nozzle_type']
WidgetKind(nozzle_type) ==
    IF "Conical" \in ComboWords[nozzle_type] THEN "conical"
    ELSE IF "Bell" \in ComboWords[nozzle_type] THEN "bell"
    ELSE IF "Rao Optimum" \in ComboWords[nozzle_type] THEN "rao"
    ELSE IF "Method of Characteristics" \in ComboWords[nozzle_type] THEN "moc"
    ELSE IF "Truncated Ideal Contour" \in ComboWords[nozzle_type] THEN "tic"
    ELSE "conical"

\* lines 329-356: the generator called for the settings s
WidgetGenerated(s, cea_data) ==
    IF "Conical" \in ComboWords[s.nozzle_type]
    THEN ConicalWithKeywords({"half_angle", "R_throat"}, cea_data, s.half_angle,
                             s.throat_radius)
    ELSE IF "Bell" \in ComboWords[s.nozzle_type]
    THEN bell_nozzle(cea_data, s.throat_radius, DefaultPoints, s.percent_bell)
    ELSE IF "Rao Optimum" \in ComboWords[s.nozzle_type]
    THEN rao_optimum_nozzle(cea_data, s.throat_radius, DefaultPoints, FromInt(30), FromInt(7))
    ELSE IF "Method of Characteristics" \in ComboWords[s.nozzle_type]
    THEN moc_nozzle(cea_data, s.throat_radius, s.num_char,
                    IF FGt(s.nu_max, Zero) THEN s.nu_max ELSE None)
    ELSE IF "Truncated Ideal Contour" \in ComboWords[s.nozzle_type]
    THEN truncated_ideal_contour(cea_data, s.throat_radius, DefaultPoints, Dec(8, 1))
    ELSE ConicalWithKeywords({"R_throat"}, cea_data, FromInt(15), s.throat_radius)

\* lines 358-360: the inlet section is added if requested
WidgetFull(s, out) ==
    IF s.include_inlet
    THEN add_inlet_section(out.x, out.r, s.throat_radius, Dec(25, 1), FromInt(3),
                           SessionInletPoints)
    ELSE [x |-> out.x, r |-> out.r]

\* calculate_performance works on Python floats, where dividing by 0.0 raises
\* ZeroDivisionError: gamma - 1 (performance.py line 65), p_c (line 71) and
\* p_exit (line 144)
PerformanceRaises(props) ==
    \/ FSub(props.gamma, One) = Zero
    \/ props.p_c = Zero
    \/ ExitPressure(props) = Zero

\* lines 313-315: without a record a warning is shown before any control is
\* read
WidgetReturns ==
    /\ wlast' = [outcome |-> "no data"]
    /\ UNCHANGED <<current_nozzle_coords, current_performance, export_enabled, wfrom>>

\* lines 380-381: the exception is shown in a message box, nothing is reset
WidgetFailed(s, how) ==
    /\ wlast' = [settings |-> s, outcome |-> how]
    /\ UNCHANGED <<current_nozzle_coords, current_performance, export_enabled, wfrom>>

\* lines 362-378: the coordinates are stored, then the performance computed
\* and stored, then the export button enabled
WidgetStore(s, cea_data, c) ==
    /\ current_nozzle_coords' = c
    /\ IF PerformanceRaises(get_throat_properties(cea_data))
          THEN /\ wlast' = [settings |-> s, outcome |-> "performance raised"]
               /\ wfrom' = [wfrom EXCEPT !.coords = wrun + 1]
               /\ UNCHANGED <<current_performance, export_enabled>>
          ELSE /\ current_performance' = calculate_performance(cea_data, c.x, c.r)
               /\ export_enabled' = TRUE
               /\ wfrom' = [coords |-> wrun + 1, performance |-> wrun + 1]
               /\ wlast' = [settings |-> s, outcome |-> "completed"]

\* lines 327-360, for the record copy with the expansion ratio written in
WidgetTry(s, cea_data, out) ==
    IF out.status = "raised" THEN WidgetFailed(s, "generator raised")
    ELSE WidgetStore(s, RecordWith(cea_data, "nozzle_type", WidgetKind(s.nozzle_type)),
                     WidgetFull(s, out))

\* the records handed to set_cea_data: what extract_thermo_data builds
\* (analysis/cea_parser.py lines 127-135), the same with a chamber pressure
\* of zero under the key the nozzle package reads, and no record
WidgetRecords ==
    {None,
     ("gamma" :> Dec(12, 1)) @@ ("area_ratio" :> FromInt(8)),
     ("gamma" :> Dec(12, 1)) @@ ("area_ratio" :> FromInt(8)) @@ ("Pc (bar)" :> Zero)}

\* the settings of the controls: the default throat radius, half angle, bell
\* percentage and nu_max; every nozzle type with the inlet at expansion ratio
\* 4, and the conical nozzle without inlet at the spin box's default 8
ControlsAt(nozzle_type, expansion_ratio, include_inlet) ==
    [nozzle_type |-> nozzle_type, throat_radius |-> Dec(5, 2),
     expansion_ratio |-> expansion_ratio, include_inlet |-> include_inlet,
     half_angle |-> FromInt(15), percent_bell |-> FromInt(80),
     num_char |-> DefaultPoints, nu_max |-> FromInt(30)]
WidgetSettings ==
    {ControlsAt(t, FromInt(4), TRUE) : t \in DOMAIN ComboWords}
    \cup {ControlsAt("Conical", FromInt(8), FALSE)}

MaxRuns == 2

\* set_cea_data, lines 295-309
SetCeaData ==
    /\ ccall = None
    /\ \E cea_data \in WidgetRecords :
          self_cea_data' = IF cea_data = None THEN self_cea_data ELSE cea_data
    /\ UNCHANGED <<current_nozzle_coords, current_performance, export_enabled, wrun, wlast,
                   wfrom, NotWidget>>

\* _generate_nozzle, lines 311-381
GenerateNozzle ==
    /\ ccall = None
    /\ wrun < MaxRuns
    /\ wrun' = wrun + 1
    /\ IF self_cea_data = None
          THEN WidgetReturns
          ELSE \E s \in WidgetSettings :
                  WidgetTry(s, RecordWith(self_cea_data, "area_ratio", s.expansion_ratio),
                            WidgetGenerated(s, RecordWith(self_cea_data, "area_ratio",
                                                          s.expansion_ratio)))
    /\ UNCHANGED <<self_cea_data, NotWidget>>

\* ------------------------------------------------------------------------
\* Specifications
\* ------------------------------------------------------------------------

MachInit ==
    /\ mpc = "idle"
    /\ margs = None
    /\ M = Zero
    /\ it = 0
    /\ mresult = None
    /\ merror = None
    /\ mlog = <<>>

GenInit ==
    /\ gpc = "idle"
    /\ gcall = None
    /\ gout = None
    /\ glog = <<>>
    /\ sfull = None
    /\ sreport = None
    /\ strace = <<>>
    /\ sfirst = <<>>

RepairInit ==
    /\ rpc = "idle"
    /\ rgen = "none"
    /\ rin = <<>>
    /\ rarr = <<>>
    /\ ri = 0

InletInit ==
    /\ ipc = "idle"
    /\ icall = None
    /\ iarrays = None
    /\ ifull = None

PerformanceInit ==
    /\ pcall = None
    /\ preport = None

SolveInit ==
    /\ bpc = "idle"
    /\ bcall = None
    /\ blo = Lo0
    /\ bhi = Hi0
    /\ bresult = None
    /\ blog = <<>>

PmInit ==
    /\ qcall = None
    /\ qmach = None

ComponentInit ==
    /\ ccall = None
    /\ cout = None
    /\ clog = <<>>

\* nozzle_design_widget.py lines 42-44 and 154
WidgetInit ==
    /\ self_cea_data = None
    /\ current_nozzle_coords = None
    /\ current_performance = None
    /\ export_enabled = FALSE
    /\ wrun = 0
    /\ wlast = None
    /\ wfrom = [coords |-> 0, performance |-> 0]

Init ==
    /\ MachInit /\ GenInit /\ RepairInit /\ InletInit /\ PerformanceInit
    /\ SolveInit /\ PmInit /\ ComponentInit /\ WidgetInit

MachNext ==
    \/ MachCall
    \/ MachIter
    \/ MachExhausted
    \/ MocMachCall

SpecMach == Init /\ [][MachNext]_vars

GenNext ==
    \/ ConicalCall(GenRecords, GenThroatRadii, GenPointCounts)
    \/ BellCall(GenRecords, GenThroatRadii, GenPointCounts, GenPercents)
    \/ RaoCall(GenRecords, GenThroatRadii, GenPointCounts)
    \/ MocCall(GenRecords, GenThroatRadii, GenPointCounts, GenAngles)
    \/ TicCall(GenRecords, GenThroatRadii, GenPointCounts)

SpecGen == Init /\ [][GenNext]_vars

SessionNext ==
    \/ ConicalCall(SessionRecords, {None}, {2})
    \/ BellCall(SessionRecords, {None}, {2}, {FromInt(80)})
    \/ RaoCall(SessionRecords, {None}, {2})
    \/ MocCall(SessionRecords, {None}, {2}, {None})
    \/ TicCall(SessionRecords, {None}, {2})
    \/ InletCall
    \/ PerformanceCall
    \/ CallerContinues

SpecSession == Init /\ [][SessionNext]_vars

RepairNext ==
    \/ \E gen \in {"rao", "bell", "moc", "tic"}, a \in RepairArrays : RepairStart(gen, a)
    \/ RaoRepairStep
    \/ BellRepairStep
    \/ MocRepairStep
    \/ TicRepairStep
    \/ RepairReturn

SpecRepair == Init /\ [][RepairNext]_vars

LegacyNext ==
    \/ NozzleBellCall
    \/ NozzleTicCall

SpecLegacy == Init /\ [][LegacyNext]_vars

InletNext ==
    \/ BaseInletCall
    \/ NozzleInletCall

SpecInlet == Init /\ [][InletNext]_vars

PerformanceNext == PerformanceOnContour

SpecPerformance == Init /\ [][PerformanceNext]_vars

SolveNext ==
    \/ SolveCall
    \/ SolveStep
    \/ SolveReturn

SpecSolve == Init /\ [][SolveNext]_vars

PmNext == PmCall

SpecPm == Init /\ [][PmNext]_vars

FrontNext ==
    \/ GenerateContour
    \/ SetCeaData
    \/ GenerateNozzle

SpecFront == Init /\ [][FrontNext]_vars

\* ------------------------------------------------------------------------
\* Claims
\* ------------------------------------------------------------------------

MachDone == mpc \in {"returned", "raised"}

\* the state part of C6
MachCapKept ==
    /\ it <= 50
    /\ (mpc = "returned" /\ margs.impl = "util") =>
          IF it >= 50
          THEN mresult = M /\ mlog = <<"Mach calculation did not converge">>
          ELSE mlog = <<>>
    /\ (mpc = "raised" /\ FGe(margs.area_ratio, One)) =>
          (merror = "ZeroDivisionError" /\ it < 50)

\* the step part of C6: a step that stays in the loop has used up one iteration
MachLoopAdvances == (mpc = "loop" /\ mpc' = "loop") => it' = it + 1

MachOfOneIsOne ==
    (MachDone /\ margs.impl = "util" /\ margs.area_ratio = One) =>
        (mpc = "returned" /\ mresult = One)

\* C8: a Mach number returned by the utility solver for an area ratio of at
\* least 1 is at least 1, and above 1 when the area ratio is above 1.
MachIsSupersonic ==
    (mpc = "returned" /\ margs.impl = "util" /\ FGe(margs.area_ratio, One)) =>
        /\ FGe(mresult, One)
        /\ FGt(margs.area_ratio, One) => FGt(mresult, One)

\* C9: a finished call of either implementation with an area ratio below 1
\* has raised the input error before iterating and returned nothing.
MachRejectsRatioBelowOne ==
    (MachDone /\ FLt(margs.area_ratio, One)) =>
        (mpc = "raised" /\ merror = "ValueError" /\ it = 0 /\ mresult = None)

GenValid ==
    /\ gpc = "done"
    /\ FGe(RecordAreaRatio(gcall.cea_data), One)
    /\ FGt(CallThroatRadius(gcall), Zero)
    /\ gcall.N >= 2

GenReturned == gpc = "done" /\ gout.status = "returned"

\* C1: a contour returned for a valid call starts at (0, R_throat) and its
\* last radius is exactly R_throat * sqrt(area_ratio).
ContourEndsAtExitRadius ==
    (GenValid /\ GenReturned) =>
        /\ gout.x[1] = Zero
        /\ gout.r[1] = CallThroatRadius(gcall)
        /\ gout.r[gcall.N] = CallExitRadius(gcall)

GenRejectsInvalidInput ==
    (gpc = "done" /\ (\/ FLt(RecordAreaRatio(gcall.cea_data), One)
                      \/ FLe(CallThroatRadius(gcall), Zero))) =>
        (gout.status = "raised" /\ gout.error \in {"ValueError", "InvalidInputError"})

\* C10: a call with area ratio 1.0 and a positive throat radius returns a
\* contour whose radius is R_throat at every point, with exit Mach 1.0.
UnitAreaRatioIsDegenerate ==
    (GenValid /\ RecordAreaRatio(gcall.cea_data) = One) =>
        /\ gout.status = "returned"
        /\ \A i \in 1..Len(gout.r) : gout.r[i] = CallThroatRadius(gcall)
        /\ gout.props.m_exit = One

\* C3: when a repair loop has run over a fitted array that held a decrease,
\* the array it leaves is non-decreasing at every index and its last element
\* is still the exit radius.
RepairLeavesValidContour ==
    (rpc = "done" /\ HasDecrease(rin)) =>
        /\ \A i \in 2..Len(rarr) : FGe(rarr[i], rarr[i - 1])
        /\ rarr[Len(rarr)] = rin[Len(rin)]

\* the latest call of the session is the generator call gcall
GeneratorJustReturned == gpc = "done" /\ strace # <<>> /\ strace[Len(strace)] = gcall

PerformanceOfConical ==
    /\ strace # <<>>
    /\ strace[Len(strace)].gen = "calculate_performance"
    /\ gcall.gen = "conical"

\* the least radius of a contour
MinRadius(r) == CHOOSE v \in {r[i] : i \in 1..Len(r)} : \A i \in 1..Len(r) : FLe(v, r[i])

BellAnglesFollowTable ==
    (gpc = "done" /\ gcall.gen = "bell") =>
        BellAngles(gcall.percent_bell) =
            IF FLe(gcall.percent_bell, FromInt(60)) THEN <<FromInt(40), FromInt(18)>>
            ELSE IF FLe(gcall.percent_bell, FromInt(80)) THEN <<FromInt(35), FromInt(12)>>
            ELSE <<FromInt(30), FromInt(8)>>

\* C14: the cubic of bell_nozzle is fitted to the slopes tan(theta_init) and
\* tan(theta_exit) of the table angles, and the cubic of rao_optimum_nozzle
\* to tan(theta_n) and tan(theta_e) of the caller's angles; no other slope
\* takes their place.
FittedSlopesAreTangents ==
    /\ (gpc = "done" /\ gcall.gen = "bell") =>
           BellSlopes(gcall.percent_bell) =
               <<FTan(Radians(BellAngles(gcall.percent_bell)[1])),
                 FTan(Radians(BellAngles(gcall.percent_bell)[2]))>>
    /\ (gpc = "done" /\ gcall.gen = "rao") =>
           RaoSlopes(gcall.theta_n, gcall.theta_e) =
               <<FTan(Radians(gcall.theta_n)), FTan(Radians(gcall.theta_e))>>

\* C12: every generator returns x and r of equal length, and that length is
\* the requested point count N, the truncated ideal contour included.
ContourHasRequestedLength ==
    (gpc = "done" /\ gout.status = "returned") =>
        /\ Len(gout.x) = Len(gout.r)
        /\ Len(gout.x) = gcall.N

\* C15: truncated_ideal_contour takes the 100% bell as its baseline and
\* resamples it on [0, trunc * L_ideal], L_ideal being the length of that
\* bell; where the resampled contour ends below R_exit a conical extension
\* brings it to R_exit, so a returned contour ends exactly at R_exit.
TicResamplesFullBell ==
    (gpc = "done" /\ gcall.gen = "tic" /\ gout.status = "returned") =>
        /\ gout.x[gcall.N] =
               FMul(FMul(L_conical(Design(gcall.cea_data, gcall.R_throat)),
                         FDiv(FromInt(100), FromInt(100))),
                    Dec(8, 1))
        /\ gout.r[Len(gout.r)] = CallExitRadius(gcall)

\* the indices of the returned contour at the axial station x0
InletStations(x0) == {i \in 1..Len(ifull.x) : ifull.x[i] = x0}

\* C16: add_inlet_section returns the chamber, the converging section and
\* the divergent contour in that order with strictly increasing x; the
\* throat point, x = 0 with r = R_throat, appears exactly once, and so does
\* the point where the chamber meets the converging section.
InletPointsAppearOnce ==
    ipc = "done" =>
        /\ \A i \in 1..(Len(ifull.x) - 1) : FLt(ifull.x[i], ifull.x[i + 1])
        /\ Cardinality(InletStations(Zero)) = 1
        /\ \A i \in InletStations(Zero) : ifull.r[i] = icall.R_throat
        /\ Cardinality(InletStations(FDiv(FNeg(FMul(icall.R_throat,
                                                    icall.chamber_length_ratio)),
                                          Two))) = 1
        /\ \A k \in 2..Len(icall.x) :
              ifull.x[Len(ifull.x) - Len(icall.x) + k] = icall.x[k]

\* C17: in the contour add_inlet_section returns, whatever divergent contour
\* it was given, r does not increase up to the throat and does not decrease
\* after it.
InletContourConvergesThenDiverges ==
    ipc = "done" =>
        \A i \in 1..(Len(ifull.x) - 1) :
            /\ FLe(ifull.x[i + 1], Zero) => FLe(ifull.r[i + 1], ifull.r[i])
            /\ FGe(ifull.x[i], Zero) => FGe(ifull.r[i + 1], ifull.r[i])

\* the last index of the cylindrical chamber: the points before the radius
\* first leaves R_chamber
ChamberEnd(R_chamber) ==
    CHOOSE k \in 0..Len(ifull.r) :
        /\ \A i \in 1..k : ifull.r[i] = R_chamber
        /\ k < Len(ifull.r) => ifull.r[k + 1] # R_chamber

\* C18: the chamber add_inlet_section builds has the constant radius
\* R_throat * chamber_radius_ratio, and its axial length, x of its last
\* point minus x of its first, is R_throat * chamber_length_ratio.
ChamberHasItsLength ==
    ipc = "done" =>
        /\ ChamberEnd(FMul(icall.R_throat, icall.chamber_radius_ratio)) >= 1
        /\ FSub(ifull.x[ChamberEnd(FMul(icall.R_throat, icall.chamber_radius_ratio))],
                ifull.x[1])
              = FMul(icall.R_throat, icall.chamber_length_ratio)

\* C19: add_inlet_section only prepends: the caller's x and r are as they
\* were passed, the returned radii from the throat to the exit are the
\* radii passed, and the exit radius is the same before and after.
InletOnlyPrepends ==
    ipc = "done" =>
        /\ iarrays = [x |-> icall.x, r |-> icall.r]
        /\ \A k \in 1..Len(icall.r) :
              ifull.r[Len(ifull.r) - Len(icall.r) + k] = icall.r[k]
        /\ ifull.r[Len(ifull.r)] = icall.r[Len(icall.r)]

\* the words of the nozzle type the call was given, none when it has no type
CallTypeWords ==
    IF "nozzle_type" \in DOMAIN pcall.cea_data
    THEN TypeWords[pcall.cea_data["nozzle_type"]]
    ELSE {}

\* base * factor * lambda of the claim, from the report's area ratio and
\* divergence loss factor and the call's nozzle type
ClaimedEfficiency ==
    FMul(FMul(IF FLt(preport.area_ratio, FromInt(10)) THEN Dec(92, 2)
              ELSE IF FLt(preport.area_ratio, FromInt(50)) THEN Dec(94, 2)
              ELSE Dec(96, 2),
              IF "conical" \in CallTypeWords THEN Dec(98, 2)
              ELSE IF "bell" \in CallTypeWords \/ "rao" \in CallTypeWords THEN Dec(101, 2)
              ELSE IF "moc" \in CallTypeWords THEN Dec(102, 2)
              ELSE One),
         preport.divergence_loss_factor)

\* C20: calculate_performance returns nozzle_efficiency =
\* min(0.99, base * factor * lambda), base 0.92, 0.94 or 0.96 by the area
\* ratio below 10, below 50 or above, factor 0.98 for a conical type, 1.01
\* for bell or Rao, 1.02 for MOC and 1.00 for any other or no type; the
\* efficiency never exceeds 0.99.
EfficiencyIsCappedProduct ==
    pcall # None =>
        /\ preport.nozzle_efficiency =
               IF FLt(ClaimedEfficiency, Dec(99, 2)) THEN ClaimedEfficiency
               ELSE Dec(99, 2)
        /\ FLe(preport.nozzle_efficiency, Dec(99, 2))

EfficiencyOfMocAtLargeAreaRatio ==
    /\ pcall # None
    /\ CallTypeWords = {"moc"}
    /\ FGe(preport.area_ratio, FromInt(50))
    /\ FLt(preport.divergence_loss_factor, One)
    /\ preport.nozzle_efficiency =
           FMul(FMul(Dec(96, 2), Dec(102, 2)), preport.divergence_loss_factor)

\* the half-angle the rule of the claim gives for the contour of the call:
\* the regression from index int(0.9 n) when that index is below n - 2,
\* else the last two points when n >= 2, else 15 degrees
ClaimedAngle ==
    IF (9 * Len(pcall.x)) \div 10 < Len(pcall.x) - 2
    THEN FAtan(PolyfitSlope(pcall.x, pcall.r, (9 * Len(pcall.x)) \div 10 + 1))
    ELSE IF Len(pcall.x) >= 2
         THEN ArctanOfRatio(FSub(pcall.r[Len(pcall.x)], pcall.r[Len(pcall.x) - 1]),
                            FSub(pcall.x[Len(pcall.x)], pcall.x[Len(pcall.x) - 1]))
    ELSE Radians(FromInt(15))

\* C21: for a contour of n >= 1 points calculate_performance takes the
\* divergence half-angle by one rule, in this order: the regression over
\* the points from index int(0.9 n) when that index is below n - 2, else the
\* slope of the last two points when n >= 2, else 15 degrees; the loss
\* factor is (1 + cos(angle)) / 2.
DivergenceAngleFollowsRule ==
    pcall # None =>
        /\ preport.divergence_angle_deg = FDiv(FMul(ClaimedAngle, FromInt(180)), Pi)
        /\ preport.divergence_loss_factor = FMul(Half, FAdd(One, FCos(ClaimedAngle)))

DivergenceAngleByRegression ==
    /\ pcall # None
    /\ Len(pcall.x) = PerfLongLen
    /\ preport.divergence_angle_deg =
           FDiv(FMul(FAtan(Dec(15, 1)), FromInt(180)), Pi)

\* C22: on every successful call the map calculate_performance returns has
\* exactly the ten keys area_ratio, pressure_ratio, thrust_coefficient,
\* ideal_thrust_coefficient, divergence_loss_factor, divergence_angle_deg,
\* nozzle_efficiency, length_to_throat_ratio, surface_area and
\* exit_mach_number, each mapped to a number.
ReportHasTheTenKeys ==
    pcall # None =>
        /\ DOMAIN preport =
               {"area_ratio", "pressure_ratio", "thrust_coefficient",
                "ideal_thrust_coefficient", "divergence_loss_factor",
                "divergence_angle_deg", "nozzle_efficiency", "length_to_throat_ratio",
                "surface_area", "exit_mach_number"}
        /\ \A k \in DOMAIN preport : DOMAIN preport[k] = {"m", "e"}

\* C23: a record without an area ratio has its throat properties taken with
\* 8.0 and a warning logged, a record without gamma with 1.2, and a record
\* that has these fields keeps its own values.
MissingFieldsTakeDefaults ==
    (gpc = "done" /\ gout.status = "returned") =>
        /\ "Ae/At" \notin DOMAIN gcall.cea_data =>
               (gout.props.area_ratio = FromInt(8) /\ glog # <<>>)
        /\ "gamma" \notin DOMAIN gcall.cea_data => gout.props.gamma = Dec(12, 1)
        /\ "Ae/At" \in DOMAIN gcall.cea_data =>
               gout.props.area_ratio = gcall.cea_data["Ae/At"]
        /\ "gamma" \in DOMAIN gcall.cea_data =>
               gout.props.gamma = gcall.cea_data["gamma"]

\* C24: a record whose gamma is outside (1, 1.7] does not make a generator
\* fail: gamma is clamped into the range, a warning is logged and the call
\* goes on with the clamped value.
GammaIsClamped ==
    (/\ gpc = "done"
     /\ "gamma" \in DOMAIN gcall.cea_data
     /\ ~(FGt(gcall.cea_data["gamma"], One) /\ FLe(gcall.cea_data["gamma"], Dec(17, 1)))) =>
        /\ gout.status = "returned"
        /\ FGt(gout.props.gamma, One)
        /\ FLe(gout.props.gamma, Dec(17, 1))
        /\ glog # <<>>

\* what solve_mach returned is within 0.001 of the Mach number the pressure
\* ratio was computed from
RoundTripWithin == bpc = "returned" => FLe(FAbs(FSub(bresult, bcall.mach)), Dec(1, 3))

\* the sought Mach number lies between lo and hi; one part in 1000 is
\* allowed for the rounding of f in eight-digit arithmetic
SoughtInBracket ==
    bpc = "loop" => /\ FLe(FMul(TicksFloat(blo), Dec(999, 3)), bcall.mach)
                    /\ FLe(bcall.mach, FMul(TicksFloat(bhi), Dec(1001, 3)))

\* the loop has stopped exactly when hi - lo <= 1e-8
StopsAtTolerance == (bpc = "returned" /\ blog = <<>>) => ~BracketOpen(blo, bhi)

\* C25: for every Mach number in (0, 50) and every gamma > 1,
\* solve_mach(pressure_ratio_from_mach(M, gamma), gamma) is within 0.001 of
\* M, the bisection keeps M between lo and hi at every step, and it stops
\* once hi - lo <= 1e-8.
SolveMachRecoversMach == RoundTripWithin /\ SoughtInBracket /\ StopsAtTolerance

MocContourFor(nu_max) == moc_nozzle(gcall.cea_data, gcall.R_throat, gcall.N, nu_max)

\* C29: when moc_nozzle is called with nu_max set, the contour is built for
\* that maximum Prandtl-Meyer angle: two calls that differ only in nu_max
\* return different contours, and only a call with nu_max None takes the angle
\* from the area ratio.
MocContourDependsOnNuMax ==
    (gpc = "done" /\ gcall.gen = "moc" /\ gcall.nu_max # None /\ GenValid) =>
        \A other \in GenAngles \ {gcall.nu_max} : gout # MocContourFor(other)

\* a is b to within one part in a million
NearlyEqual(a, b) == FLe(FAbs(FSub(a, b)), FMul(Mk(1, -6), FAbs(b)))

\* the last radius of a contour
ExitRadiusOf(c) == c.r[Len(c.r)]

\* the latest _generate_nozzle call stored a contour
WidgetStoredContour == wlast # None /\ wlast.outcome # "no data" /\ wfrom.coords = wrun

\* C27: the expansion ratio the caller chose reaches the generator: the
\* contour _generate_nozzle stores, and the contour generate_contour returns
\* when it builds the record itself, end at the exit radius
\* throat radius * sqrt(chosen expansion ratio).
ChosenExpansionRatioIsUsed ==
    /\ WidgetStoredContour =>
          NearlyEqual(ExitRadiusOf(current_nozzle_coords),
                      FMul(wlast.settings.throat_radius,
                           FSqrt(wlast.settings.expansion_ratio)))
    /\ (ccall # None /\ ccall.cea_data = None /\ cout.status = "returned") =>
          NearlyEqual(ExitRadiusOf(cout),
                      FMul(FDiv(ccall.nozzle.throat_diameter, Two),
                           FSqrt(ccall.nozzle.expansion_ratio)))

\* the record generate_contour worked on in the latest call
ComponentRecord == IF ccall.cea_data = None THEN DefaultRecord(ccall.nozzle) ELSE ccall.cea_data

\* what the generator matching the nozzle's contour_type returns for the
\* nozzle's parameters, the conical one for any other type
MatchingContour(nozzle, cea_data, R_throat) ==
    IF nozzle.contour_type \in {"Bell", "80% Bell"}
    THEN bell_nozzle(cea_data, R_throat, DefaultPoints, nozzle.percentage_bell)
    ELSE IF nozzle.contour_type = "Rao Optimum"
    THEN rao_optimum_nozzle(cea_data, R_throat, DefaultPoints, FromInt(30), FromInt(7))
    ELSE conical_nozzle(cea_data, IF nozzle.contour_type = "Conical" THEN nozzle.half_angle
                                  ELSE FromInt(15),
                        R_throat, DefaultPoints)

\* C28: Nozzle.generate_contour returns a contour for every contour_type: the
\* matching generator's for Conical, Bell, 80% Bell and Rao Optimum, and the
\* default conical one with a warning logged for any other type; it never
\* raises.
GenerateContourNeverRaises ==
    ccall # None =>
        /\ cout.status = "returned"
        /\ cout = MatchingContour(ccall.nozzle, ComponentRecord,
                                  FDiv(ccall.nozzle.throat_diameter, Two))
        /\ clog = IF ccall.nozzle.contour_type \in {"Conical", "Bell", "80% Bell", "Rao Optimum"}
                  THEN <<>> ELSE <<"Unsupported nozzle type">>

\* C30: after any sequence of _generate_nozzle calls, some of which may have
\* raised in the generator, the inlet builder or the performance evaluator,
\* current_nozzle_coords and current_performance come from the same call
\* (or are both None), and the export button is enabled only when there is
\* such a pair.
WidgetPairFromOneRun ==
    /\ \/ current_nozzle_coords = None /\ current_performance = None
       \/ /\ current_nozzle_coords # None /\ current_performance # None
          /\ wfrom.coords = wfrom.performance
    /\ export_enabled =>
          /\ current_nozzle_coords # None /\ current_performance # None
          /\ wfrom.coords = wfrom.performance

====
